---- MODULE Spec2Model ----
(***************************************************************************)
(* PlantRevenuePrediction: the SugarcaneModel class of                     *)
(* src/PlantRevenuePrediction/model.py.                                    *)
(*                                                                         *)
(* Numbers are fixed point.  Money is counted in units of 1/10000 of a     *)
(* currency unit (MoneyScale), so that every product the formulas form on  *)
(* the input grids below is an exact integer; round(x, 2) is a rounding to *)
(* the nearest multiple of 100 such units, ties to the even neighbour, and *)
(* a rounded figure is held in hundredths.                                 *)
(*                                                                         *)
(*   cane_yield_tons_per_hectare   tons                                    *)
(*   sugar_content_brix            percent                                 *)
(*   ccs_quality                   tenths                                  *)
(*   avg_temp_plantation           tenths of a degree                      *)
(*   rainfall_mm                   millimetres                             *)
(*   harvest_month                 1..12                                   *)
(*   sugar_price_per_kg            thousandths of a currency unit          *)
(*   ethanol_price_per_liter       hundredths of a currency unit           *)
(*   fermentation_efficiency       percent                                 *)
(*   bagasse/molasses_value_per_ton hundredths of a currency unit          *)
(*   plantation cost, processing costs   money units (1/10000)             *)
(***************************************************************************)
EXTENDS Integers, Sequences, FiniteSets, TLC

VARIABLES
    conditions,        \* the mapping handed to predict_optimal_production
    locals,            \* the local variables of predict_optimal_production at its return
    decision,          \* what predict_optimal_production returned or raised
    clock,             \* pd.Timestamp.now(), in days
    rng,               \* the state of numpy's process-wide generator
    stream,            \* what that generator yields once seeded with 42
    table,             \* the last call of a generator: its argument and outcome
    model_path,        \* self.model_path of the SugarcaneModel instance
    model,             \* self.model
    feature_columns,   \* self.feature_columns
    files,             \* the artifact stored at each path, if any
    outcome,           \* what the last call on the instance returned or raised
    runs,              \* the background training threads of the UI
    ui,                \* the training fields of the UI's State
    screen             \* the input fields and the result fields of the UI's State

decisionVars == <<conditions, locals, decision>>

generatorVars == <<clock, rng, stream, table>>

instanceVars == <<model_path, model, feature_columns, files, outcome>>

threadVars == <<runs, ui, screen>>

vars ==
    <<conditions, locals, decision, clock, rng, stream, table,
      model_path, model, feature_columns, files, outcome, runs, ui,
      screen>>

----------------------------------------------------------------------------
(* Fixed-point helpers *)

\* Money units per currency unit.
MoneyScale == 100 * 100

Abs(x) == IF x < 0 THEN -x ELSE x

Min(a, b) == IF a < b THEN a ELSE b

Max(a, b) == IF a > b THEN a ELSE b

\* np.clip(x, lo, hi)
Clip(x, lo, hi) == Min(Max(x, lo), hi)

\* The integer nearest to num/den (den > 0), ties to the even neighbour.
RoundHalfEven(num, den) ==
    LET q == num \div den
        r == num - q * den
    IN  IF 2 * r < den THEN q
        ELSE IF 2 * r > den THEN q + 1
        ELSE IF q % 2 = 0 THEN q ELSE q + 1

\* round(x, 2) of a figure held in 1/10000: the result is in hundredths.
Round2(x) == RoundHalfEven(x, 100)

----------------------------------------------------------------------------
(* The row formulas of SugarcaneModel.generate_unified_sugarcane_data.  A   *)
(* row r is a record of the drawn columns, in the units listed above.      *)

TempPenaltyCap == 15

RainPenaltyCap == 10

\* df["weather_penalty"]: the two clipped terms.
TempPenalty(temp) ==
    Clip(Abs(temp - 260) * 2 * (MoneyScale \div 10), 0, TempPenaltyCap * MoneyScale)

RainPenalty(rain) ==
    Clip(Abs(rain - 1200) * (MoneyScale \div 100), 0, RainPenaltyCap * MoneyScale)

WeatherPenalty(r) ==
    TempPenalty(r.avg_temp_plantation) + RainPenalty(r.rainfall_mm)

\* df["sugar_tons_per_hectare"], in 1/10000 ton
RowSugarTons(r) == r.cane_yield_tons_per_hectare * r.sugar_content_brix * 85

\* df["ethanol_liters_per_hectare"], in 1/1000 liter
RowEthanolLiters(r) ==
    r.cane_yield_tons_per_hectare * r.sugar_content_brix
    * r.fermentation_efficiency * 65

\* df["bagasse_tons_per_hectare"] * df["bagasse_value_per_ton"]
RowBagasseRevenue(r) ==
    r.cane_yield_tons_per_hectare * 28 * r.bagasse_value_per_ton

\* df["sugar_byproduct_revenue"]
RowSugarByproduct(r) ==
    RowBagasseRevenue(r)
    + r.cane_yield_tons_per_hectare * 4 * r.molasses_value_per_ton

\* df["sugar_profit_per_hectare"] before the noise is applied
RowSugarProfit(r) ==
    RowSugarTons(r) * r.sugar_price_per_kg
    + RowSugarByproduct(r)
    - r.cane_yield_tons_per_hectare * r.sugar_processing_cost_per_ton_cane
    - r.plantation_cost_per_hectare
    - WeatherPenalty(r)

\* df["ethanol_profit_per_hectare"] before the noise is applied
RowEthanolProfit(r) ==
    (RowEthanolLiters(r) * r.ethanol_price_per_liter) \div 10
    + RowBagasseRevenue(r)
    - r.cane_yield_tons_per_hectare * r.ethanol_processing_cost_per_ton_cane
    - r.plantation_cost_per_hectare
    - WeatherPenalty(r)

----------------------------------------------------------------------------
(* The Decision Engine: SugarcaneModel.predict_optimal_production *)

\* The keys the docstring of predict_optimal_production lists.
ConditionKeys ==
    { "cane_yield_tons_per_hectare", "sugar_content_brix", "ccs_quality",
      "avg_temp_plantation", "rainfall_mm", "harvest_month",
      "sugar_price_per_kg", "ethanol_price_per_liter",
      "fermentation_efficiency", "plantation_cost_per_hectare",
      "sugar_processing_cost_per_ton_cane",
      "ethanol_processing_cost_per_ton_cane",
      "bagasse_value_per_ton", "molasses_value_per_ton" }

\* The subscripts conditions[...] of the body, in the order it evaluates them.
SubscriptOrder ==
    << "cane_yield_tons_per_hectare", "sugar_content_brix",
       "sugar_price_per_kg", "bagasse_value_per_ton",
       "molasses_value_per_ton", "sugar_processing_cost_per_ton_cane",
       "avg_temp_plantation", "plantation_cost_per_hectare",
       "fermentation_efficiency", "ethanol_price_per_liter",
       "ethanol_processing_cost_per_ton_cane" >>

\* conditions.get("rainfall_mm", 1200)
RainfallDefault == 1200

GetRainfall(c) ==
    IF "rainfall_mm" \in DOMAIN c THEN c["rainfall_mm"] ELSE RainfallDefault

OptimalTemp == 260

OptimalRainfall == 1200

\* A weather penalty that also reads harvest_month.
EngineWeatherPenaltyByMonth(c) ==
    Abs(c["avg_temp_plantation"] - OptimalTemp) * 2 * (MoneyScale \div 10)
    + Abs(GetRainfall(c) - OptimalRainfall) * (MoneyScale \div 100)
    + (IF "harvest_month" \in DOMAIN c
       THEN c["harvest_month"] * MoneyScale ELSE 0)

\* weather_penalty of predict_optimal_production: the two terms are added as
\* they are; nothing clips them.
EngineWeatherPenalty(c) ==
    Abs(c["avg_temp_plantation"] - OptimalTemp) * 2 * (MoneyScale \div 10)
    + Abs(GetRainfall(c) - OptimalRainfall) * (MoneyScale \div 100)

\* sugar_tons, in 1/10000 ton: cane_yield * (brix / 100) * 0.85
SugarTons(yield, brix) == yield * brix * 85

\* ethanol_liters, in 1/1000 liter: cane_yield * (brix / 100) * eff * 650
EthanolLiters(yield, brix, eff) == yield * brix * eff * 65

\* sugar_tons * sugar_price_per_kg * 1000
SugarRevenue(tons, price) == tons * price

\* ethanol_liters * ethanol_price_per_liter (exact on the input grids: the
\* yields are even)
EthanolRevenue(liters, price) == (liters * price) \div 10

\* bagasse_tons * bagasse_value_per_ton, with bagasse_tons = cane_yield * 0.28
BagasseRevenue(yield, value) == yield * 28 * value

\* molasses_tons * molasses_value_per_ton, with molasses_tons = cane_yield * 0.04
MolassesRevenue(yield, value) == yield * 4 * value

ConfidenceSaturation == 2000

\* min(abs(profit_diff) / 2000, 1.0), as the fraction num/den
ConfidenceNoClamp(profit_diff) ==
    [num |-> Abs(profit_diff), den |-> ConfidenceSaturation * MoneyScale]

Confidence(profit_diff) ==
    LET den == ConfidenceSaturation * MoneyScale
    IN  [num |-> Min(Abs(profit_diff), den), den |-> den]

DecisionThreshold == 500

\* The if / elif / else of the decision logic.
RecommendationInclusive(profit_diff) ==
    IF profit_diff >= DecisionThreshold * MoneyScale THEN "ethanol"
    ELSE IF profit_diff <= -DecisionThreshold * MoneyScale THEN "sugar"
    ELSE "mixed"

Recommendation(profit_diff) ==
    IF profit_diff > DecisionThreshold * MoneyScale THEN "ethanol"
    ELSE IF profit_diff < -DecisionThreshold * MoneyScale THEN "sugar"
    ELSE "mixed"

\* The local variables of predict_optimal_production when every subscript
\* succeeds.
EngineLocals(c) ==
    LET yield == c["cane_yield_tons_per_hectare"]
        sugar_tons == SugarTons(yield, c["sugar_content_brix"])
        sugar_revenue == SugarRevenue(sugar_tons, c["sugar_price_per_kg"])
        bagasse == BagasseRevenue(yield, c["bagasse_value_per_ton"])
        sugar_byproduct ==
            bagasse + MolassesRevenue(yield, c["molasses_value_per_ton"])
        sugar_processing == yield * c["sugar_processing_cost_per_ton_cane"]
        weather_penalty == EngineWeatherPenalty(c)
        sugar_profit ==
            sugar_revenue + sugar_byproduct - sugar_processing
            - c["plantation_cost_per_hectare"] - weather_penalty
        ethanol_liters ==
            EthanolLiters(yield, c["sugar_content_brix"],
                          c["fermentation_efficiency"])
        ethanol_revenue ==
            EthanolRevenue(ethanol_liters, c["ethanol_price_per_liter"])
        ethanol_byproduct == bagasse
        ethanol_processing == yield * c["ethanol_processing_cost_per_ton_cane"]
        ethanol_profit ==
            ethanol_revenue + ethanol_byproduct - ethanol_processing
            - c["plantation_cost_per_hectare"] - weather_penalty
        profit_diff == ethanol_profit - sugar_profit
    IN  [ sugar_tons |-> sugar_tons,
          sugar_byproduct |-> sugar_byproduct,
          weather_penalty |-> weather_penalty,
          sugar_profit |-> sugar_profit,
          ethanol_liters |-> ethanol_liters,
          ethanol_byproduct |-> ethanol_byproduct,
          ethanol_profit |-> ethanol_profit,
          profit_diff |-> profit_diff,
          confidence |-> Confidence(profit_diff),
          recommendation |-> Recommendation(profit_diff) ]

\* A return statement that reports the ethanol profit as the difference.
EngineReturnEthanolAsDifference(l) ==
    [ recommendation |-> l.recommendation,
      sugar_profit_per_hectare |-> Round2(l.sugar_profit),
      ethanol_profit_per_hectare |-> Round2(l.ethanol_profit),
      profit_difference |-> Round2(l.ethanol_profit),
      confidence |-> RoundHalfEven(l.confidence.num, l.confidence.den \div 100),
      sugar_production_liters |-> 0,
      sugar_production_tons |-> Round2(l.sugar_tons),
      ethanol_production_liters |-> RoundHalfEven(l.ethanol_liters, 10),
      byproduct_revenue_sugar |-> Round2(l.sugar_byproduct),
      byproduct_revenue_ethanol |-> Round2(l.ethanol_byproduct) ]

\* The dict the return statement builds (figures in hundredths).
EngineReturn(l) ==
    [ recommendation |-> l.recommendation,
      sugar_profit_per_hectare |-> Round2(l.sugar_profit),
      ethanol_profit_per_hectare |-> Round2(l.ethanol_profit),
      profit_difference |-> Round2(l.profit_diff),
      confidence |-> RoundHalfEven(l.confidence.num, l.confidence.den \div 100),
      sugar_production_liters |-> 0,
      sugar_production_tons |-> Round2(l.sugar_tons),
      ethanol_production_liters |-> RoundHalfEven(l.ethanol_liters, 10),
      byproduct_revenue_sugar |-> Round2(l.sugar_byproduct),
      byproduct_revenue_ethanol |-> Round2(l.ethanol_byproduct) ]

\* The subscripted keys the mapping lacks, as positions of SubscriptOrder.
MissingSubscripts(c) ==
    { i \in 1..Len(SubscriptOrder) : SubscriptOrder[i] \notin DOMAIN c }

FirstMissing(c) ==
    SubscriptOrder[CHOOSE i \in MissingSubscripts(c) :
                      \A j \in MissingSubscripts(c) : i <= j]

NoLocals == [status |-> "none"]

NoCall == [status |-> "none"]

\* predict_optimal_production(conditions): the first failing subscript raises
\* KeyError(key); otherwise the dict is returned.
predict_optimal_production(c) ==
    IF MissingSubscripts(c) # {}
    THEN [status |-> "KeyError", key |-> FirstMissing(c)]
    ELSE [status |-> "returned", result |-> EngineReturn(EngineLocals(c))]

----------------------------------------------------------------------------
(* Inputs of the Decision Engine *)

\* At most this many of the listed keys are left out of a mapping.
MaxMissing == 1

YieldValues == {40, 80}

TempValues == {200, 260, 400}

RainfallValues == {600, 1200, 2500}

SugarPriceValues == {450, 600}

EthanolPriceValues == {60, 80}

\* Per ton of cane; with a yield of 40 these put profit_diff at -500.004,
\* -500, 0, 500, 500.004, 1990 and 2000, next to test_decision_model.py's 45.0.
SugarCostValues ==
    {450000, 787599, 787600, 912600, 1037600, 1037601, 1410100, 1412600}

\* The mappings with every listed key.
FullConditions ==
    [ cane_yield_tons_per_hectare : YieldValues,
      sugar_content_brix : {14},
      ccs_quality : {115},
      avg_temp_plantation : TempValues,
      rainfall_mm : RainfallValues,
      harvest_month : {7},
      sugar_price_per_kg : SugarPriceValues,
      ethanol_price_per_liter : EthanolPriceValues,
      fermentation_efficiency : {90},
      plantation_cost_per_hectare : {2000 * MoneyScale},
      sugar_processing_cost_per_ton_cane : SugarCostValues,
      ethanol_processing_cost_per_ton_cane : {65 * MoneyScale},
      bagasse_value_per_ton : {2500},
      molasses_value_per_ton : {10000} ]

Restrict(f, S) == [k \in S |-> f[k]]

ConditionInputs ==
    { Restrict(full, ConditionKeys \ miss) :
        full \in FullConditions,
        miss \in {m \in SUBSET ConditionKeys : Cardinality(m) <= MaxMissing} }

----------------------------------------------------------------------------
(* The Synthetic Data Generator: generate_unified_sugarcane_data *)

\* At most this many samples are asked for.
MaxSamples == 2

\* The wall clock advances at most this far.
MaxClock == 2

\* np.random.seed(42)
Seed == 42

\* The arrays drawn per call: sixteen columns and the two noise factors.
DrawsPerRow == 18

\* One row of what the seeded generator yields, before any clipping: the
\* sixteen column draws and the two noise factors (in tenths).
TypicalDraw ==
    [ cane_yield_tons_per_hectare |-> 80, sugar_content_brix |-> 14,
      ccs_quality |-> 115, avg_temp_plantation |-> 260, rainfall_mm |-> 1200,
      harvest_month |-> 7, plantation_cost_per_hectare |-> 2000 * MoneyScale,
      sugar_price_per_kg |-> 500, ethanol_price_per_liter |-> 65,
      crude_oil_price |-> 8000, gasoline_price |-> 260,
      bagasse_value_per_ton |-> 2500, molasses_value_per_ton |-> 10000,
      sugar_processing_cost_per_ton_cane |-> 45 * MoneyScale,
      ethanol_processing_cost_per_ton_cane |-> 65 * MoneyScale,
      fermentation_efficiency |-> 90,
      noise_sugar |-> 10, noise_ethanol |-> 10 ]

\* A hot, wet, low-yield row whose profit difference is 500.004.
EdgeDraw ==
    [ cane_yield_tons_per_hectare |-> 36, sugar_content_brix |-> 16,
      ccs_quality |-> 120, avg_temp_plantation |-> 340, rainfall_mm |-> 2100,
      harvest_month |-> 7, plantation_cost_per_hectare |-> 2000 * MoneyScale,
      sugar_price_per_kg |-> 400, ethanol_price_per_liter |-> 85,
      crude_oil_price |-> 9000, gasoline_price |-> 300,
      bagasse_value_per_ton |-> 2000, molasses_value_per_ton |-> 8000,
      sugar_processing_cost_per_ton_cane |-> 45 * MoneyScale,
      ethanol_processing_cost_per_ton_cane |-> 597639,
      fermentation_efficiency |-> 96,
      noise_sugar |-> 10, noise_ethanol |-> 10 ]

\* A typical row in March with 10 % noise either way.
NoisyDraw ==
    [ TypicalDraw EXCEPT !.harvest_month = 3, !.sugar_price_per_kg = 504,
                         !.noise_sugar = 11, !.noise_ethanol = 9 ]

\* A row that differs from NoisyDraw below the second decimal, and in noise.
OtherNoisyDraw ==
    [ TypicalDraw EXCEPT !.harvest_month = 3, !.sugar_price_per_kg = 496,
                         !.noise_sugar = 9, !.noise_ethanol = 10 ]

RowDraws == {TypicalDraw, EdgeDraw, NoisyDraw, OtherNoisyDraw}

\* The seeded generator is deterministic: for each sample count, the rows
\* it yields are fixed.  Which rows they are is left open; the rows for the
\* smaller counts are taken from those for the largest.
Streams ==
    { [n \in 1..MaxSamples |-> SubSeq(rows, 1, n)] :
        rows \in [1..MaxSamples -> RowDraws] }

\* The np.clip calls on the drawn columns (temperature and the rest are
\* not clipped).
ClipDraw(d) ==
    [ d EXCEPT
        !.cane_yield_tons_per_hectare = Clip(@, 40, 120),
        !.sugar_content_brix = Clip(@, 10, 18),
        !.ccs_quality = Clip(@, 90, 140),
        !.rainfall_mm = Clip(@, 600, 2000) ]

\* The lambda of df["profit_difference"].apply
Strategy(x) ==
    IF x > 500 * MoneyScale THEN "ethanol"
    ELSE IF x < -(500 * MoneyScale) THEN "sugar" ELSE "mixed"

\* A multiplication of the whole column by the first row's factor.
ApplyNoiseOfFirstRow(column, noise) ==
    [i \in DOMAIN column |-> column[i] * noise[1]]

\* df[col] *= np.random.normal(1, 0.08, num_samples): elementwise; each
\* product is kept as the fraction num/10 of a money unit.
ApplyNoise(column, noise) ==
    [i \in DOMAIN column |-> column[i] * noise[i]]

\* data["date"]: pd.date_range(start=now - (n-1) days, end=now, periods=n)
DateRange(now, n) == [i \in 1..n |-> now - (n - i)]

\* The columns a row holds before df.round(2), computed from its own
\* clipped draws r (lines 87-142).
DerivedColumns(r) ==
    [ sugar_tons_per_hectare |-> RowSugarTons(r),
      ethanol_liters_per_hectare |-> RowEthanolLiters(r),
      bagasse_tons_per_hectare |-> r.cane_yield_tons_per_hectare * 28,
      molasses_tons_per_hectare_sugar |-> r.cane_yield_tons_per_hectare * 4,
      weather_penalty |-> WeatherPenalty(r),
      sugar_revenue |-> RowSugarTons(r) * r.sugar_price_per_kg,
      sugar_byproduct_revenue |-> RowSugarByproduct(r),
      sugar_processing_cost |->
          r.cane_yield_tons_per_hectare * r.sugar_processing_cost_per_ton_cane,
      sugar_profit_per_hectare |-> RowSugarProfit(r),
      ethanol_revenue |->
          (RowEthanolLiters(r) * r.ethanol_price_per_liter) \div 10,
      ethanol_byproduct_revenue |-> RowBagasseRevenue(r),
      ethanol_processing_cost |->
          r.cane_yield_tons_per_hectare * r.ethanol_processing_cost_per_ton_cane,
      ethanol_profit_per_hectare |-> RowEthanolProfit(r),
      profit_difference |-> RowEthanolProfit(r) - RowSugarProfit(r),
      optimal_strategy |-> Strategy(RowEthanolProfit(r) - RowSugarProfit(r)) ]

\* One row of df.round(2): every float column in hundredths; date,
\* harvest_month and optimal_strategy as they are.  r: the clipped draws,
\* x: the derived columns, ns and ne: the noisy profits (tenths of a money
\* unit).
RoundedRow(date, r, x, ns, ne) ==
    [ date |-> date,
      cane_yield_tons_per_hectare |-> r.cane_yield_tons_per_hectare * 100,
      sugar_content_brix |-> r.sugar_content_brix * 100,
      ccs_quality |-> r.ccs_quality * 10,
      avg_temp_plantation |-> r.avg_temp_plantation * 10,
      rainfall_mm |-> r.rainfall_mm * 100,
      harvest_month |-> r.harvest_month,
      plantation_cost_per_hectare |-> Round2(r.plantation_cost_per_hectare),
      sugar_price_per_kg |-> RoundHalfEven(r.sugar_price_per_kg, 10),
      ethanol_price_per_liter |-> r.ethanol_price_per_liter,
      crude_oil_price |-> r.crude_oil_price,
      gasoline_price |-> r.gasoline_price,
      bagasse_value_per_ton |-> r.bagasse_value_per_ton,
      molasses_value_per_ton |-> r.molasses_value_per_ton,
      sugar_processing_cost_per_ton_cane |->
          Round2(r.sugar_processing_cost_per_ton_cane),
      ethanol_processing_cost_per_ton_cane |->
          Round2(r.ethanol_processing_cost_per_ton_cane),
      fermentation_efficiency |-> r.fermentation_efficiency,
      sugar_tons_per_hectare |-> Round2(x.sugar_tons_per_hectare),
      ethanol_liters_per_hectare |->
          RoundHalfEven(x.ethanol_liters_per_hectare, 10),
      bagasse_tons_per_hectare |-> x.bagasse_tons_per_hectare,
      molasses_tons_per_hectare_sugar |-> x.molasses_tons_per_hectare_sugar,
      weather_penalty |-> Round2(x.weather_penalty),
      sugar_revenue |-> Round2(x.sugar_revenue),
      sugar_byproduct_revenue |-> Round2(x.sugar_byproduct_revenue),
      sugar_processing_cost |-> Round2(x.sugar_processing_cost),
      sugar_profit_per_hectare |-> RoundHalfEven(ns, 1000),
      ethanol_revenue |-> Round2(x.ethanol_revenue),
      ethanol_byproduct_revenue |-> Round2(x.ethanol_byproduct_revenue),
      ethanol_processing_cost |-> Round2(x.ethanol_processing_cost),
      ethanol_profit_per_hectare |-> RoundHalfEven(ne, 1000),
      profit_difference |-> Round2(x.profit_difference),
      optimal_strategy |-> x.optimal_strategy,
      target_net_profit_per_ton |->
          RoundHalfEven(ns, 1000 * r.cane_yield_tons_per_hectare),
      target_ethanol_profit_per_liter |->
          RoundHalfEven(ne, x.ethanol_liters_per_hectare) ]

\* The DataFrame generate_unified_sugarcane_data returns at wall-clock time
\* now when the seeded generator yields draws (one per row).
UnifiedTable(now, draws) ==
    LET n == Len(draws)
        date == DateRange(now, n)
        df == [i \in 1..n |-> ClipDraw(draws[i])]
        x == [i \in 1..n |-> DerivedColumns(df[i])]
        sugar == ApplyNoise([i \in 1..n |-> x[i].sugar_profit_per_hectare],
                            [i \in 1..n |-> draws[i].noise_sugar])
        ethanol == ApplyNoise([i \in 1..n |-> x[i].ethanol_profit_per_hectare],
                              [i \in 1..n |-> draws[i].noise_ethanol])
    IN  [i \in 1..n |-> RoundedRow(date[i], df[i], x[i], sugar[i], ethanol[i])]

\* numpy's generator before anyone seeds it (-1: seeded by the operating
\* system), and after seed(42) and a number of draws.
Unseeded == [seed |-> -1, drawn |-> 0]

Seeded(drawn) == [seed |-> Seed, drawn |-> drawn]

NoTable == [status |-> "none"]

----------------------------------------------------------------------------
(* The derived views: generate_synthetic_data_sugar / _etanol *)

\* sugar_cols after the rename
SugarViewColumns ==
    << "date", "sugar_price", "ethanol_price", "bagasse_value",
       "molasses_value", "avg_temp_plantation", "rainfall_harvest",
       "ccs_quality", "harvest_month", "cane_yield_tons_per_hectare",
       "sugar_content_brix", "sugar_profit_per_hectare",
       "target_net_profit_per_ton" >>

\* A sugar view that keeps the price per kg.
SugarViewRowPerKg(row) ==
    [ date |-> row.date,
      sugar_price |-> row.sugar_price_per_kg,
      ethanol_price |-> row.ethanol_price_per_liter,
      bagasse_value |-> row.bagasse_value_per_ton,
      molasses_value |-> row.molasses_value_per_ton,
      avg_temp_plantation |-> row.avg_temp_plantation,
      rainfall_harvest |-> row.rainfall_mm,
      ccs_quality |-> row.ccs_quality,
      harvest_month |-> row.harvest_month,
      cane_yield_tons_per_hectare |-> row.cane_yield_tons_per_hectare,
      sugar_content_brix |-> row.sugar_content_brix,
      sugar_profit_per_hectare |-> row.sugar_profit_per_hectare,
      target_net_profit_per_ton |-> row.target_net_profit_per_ton ]

\* One row of df_sugar.round(2); sugar_price is scaled by 1000.
SugarViewRow(row) ==
    [ date |-> row.date,
      sugar_price |-> row.sugar_price_per_kg * 1000,
      ethanol_price |-> row.ethanol_price_per_liter,
      bagasse_value |-> row.bagasse_value_per_ton,
      molasses_value |-> row.molasses_value_per_ton,
      avg_temp_plantation |-> row.avg_temp_plantation,
      rainfall_harvest |-> row.rainfall_mm,
      ccs_quality |-> row.ccs_quality,
      harvest_month |-> row.harvest_month,
      cane_yield_tons_per_hectare |-> row.cane_yield_tons_per_hectare,
      sugar_content_brix |-> row.sugar_content_brix,
      sugar_profit_per_hectare |-> row.sugar_profit_per_hectare,
      target_net_profit_per_ton |-> row.target_net_profit_per_ton ]

SugarView(df) == [i \in DOMAIN df |-> SugarViewRow(df[i])]

\* ethanol_cols after the rename
EthanolViewColumns ==
    << "date", "ethanol_price", "crude_oil_price", "gasoline_price",
       "ccs_quality", "fermentation_efficiency", "harvest_month",
       "cane_yield_tons_per_hectare", "sugar_content_brix",
       "avg_temp_plantation", "rainfall_harvest",
       "ethanol_profit_per_hectare", "target_ethanol_profit_per_liter" >>

\* One row of df_ethanol.round(4)
EthanolViewRow(row) ==
    [ date |-> row.date,
      ethanol_price |-> row.ethanol_price_per_liter,
      crude_oil_price |-> row.crude_oil_price,
      gasoline_price |-> row.gasoline_price,
      ccs_quality |-> row.ccs_quality,
      fermentation_efficiency |-> row.fermentation_efficiency,
      harvest_month |-> row.harvest_month,
      cane_yield_tons_per_hectare |-> row.cane_yield_tons_per_hectare,
      sugar_content_brix |-> row.sugar_content_brix,
      avg_temp_plantation |-> row.avg_temp_plantation,
      rainfall_harvest |-> row.rainfall_mm,
      ethanol_profit_per_hectare |-> row.ethanol_profit_per_hectare,
      target_ethanol_profit_per_liter |-> row.target_ethanol_profit_per_liter ]

EthanolView(df) == [i \in DOMAIN df |-> EthanolViewRow(df[i])]

----------------------------------------------------------------------------
(* The Feature Preparer: _prepare_features / _prepare_ethanol_features *)

\* f"month_{m}" for m in 0..13
MonthNames ==
    << "month_0", "month_1", "month_2", "month_3", "month_4", "month_5",
       "month_6", "month_7", "month_8", "month_9", "month_10", "month_11",
       "month_12", "month_13" >>

MonthColumn(m) == MonthNames[m + 1]

\* range(1, 13)
Months == 1..12

\* month_1 .. month_12
MonthIndicators == {MonthColumn(m) : m \in Months}

Range(seq) == {seq[i] : i \in DOMAIN seq}

\* The columns the drop call of _prepare_features names.
SugarDropped ==
    { "date", "target_net_profit_per_ton", "base_sugar_profit",
      "ethanol_profit", "side_product_profit", "weather_penalty" }

\* The columns the drop call of _prepare_ethanol_features names.
EthanolDropped ==
    { "date", "target_ethanol_profit_per_liter", "ethanol_production_profit",
      "energy_cost_factor", "market_correlation", "weather_impact" }

\* pd.get_dummies(df, columns=["harvest_month"], prefix="month"): the other
\* columns in order, then one indicator per month that occurs, ascending.
DummyColumns(columns, df) ==
    LET months == {df[i].harvest_month : i \in DOMAIN df}
    IN  SelectSeq(columns, LAMBDA c : c # "harvest_month")
        \o SelectSeq(Tail(MonthNames), LAMBDA c :
               \E m \in months : c = MonthColumn(m))

\* X.columns
FeatureColumns(columns, df, dropped) ==
    SelectSeq(DummyColumns(columns, df), LAMBDA c : c \notin dropped)

\* One row of X: the kept columns, the indicators as 0 / 1.
FeatureRow(columns, row) ==
    [c \in Range(columns) |->
        IF c \in DOMAIN row THEN row[c]
        ELSE IF c = MonthColumn(row.harvest_month) THEN 1 ELSE 0]

\* A preparer whose drop call fails on a column the table lacks.
PreparedStrictDrop(columns, df, dropped, target) ==
    IF \E c \in dropped : c \notin Range(columns)
    THEN [status |-> "KeyError",
          key |-> CHOOSE c \in dropped : c \notin Range(columns)]
    ELSE [status |-> "returned",
          columns |-> FeatureColumns(columns, df, dropped),
          X |-> [i \in DOMAIN df |->
                    FeatureRow(FeatureColumns(columns, df, dropped), df[i])],
          y |-> [i \in DOMAIN df |-> df[i][target]]]

\* The body shared by _prepare_features and _prepare_ethanol_features on a
\* table with the given columns: get_dummies, drop(..., errors="ignore"),
\* then df_encoded[target], which raises KeyError(target) when the table has
\* no such column.
Prepared(columns, df, dropped, target) ==
    IF target \notin Range(columns)
    THEN [status |-> "KeyError", key |-> target]
    ELSE [status |-> "returned",
          columns |-> FeatureColumns(columns, df, dropped),
          X |-> [i \in DOMAIN df |->
                    FeatureRow(FeatureColumns(columns, df, dropped), df[i])],
          y |-> [i \in DOMAIN df |-> df[i][target]]]

----------------------------------------------------------------------------
(* The Trainer *)

\* train_test_split(X, y, test_size=0.2, random_state=42): the test
\* partition holds ceil(0.2 n) rows; an empty train partition is an error.
NTest(n) == (2 * n + 9) \div 10

NTrain(n) == n - NTest(n)

\* The rows of the train partition (the seeded shuffle is taken to put the
\* last rows into the test partition).
TrainRows(n) == 1..NTrain(n)

RECURSIVE SumOver(_, _)
SumOver(f, S) ==
    IF S = {} THEN 0
    ELSE LET x == CHOOSE y \in S : TRUE
         IN  f[x] + SumOver(f, S \ {x})

\* model.fit(X_train, y_train): the fitted regressor, known by its kind, the
\* columns it was fitted on and the mean of its targets.
FitRegressor(kind, columns, y, rows) ==
    [ kind |-> kind,
      feature_names_in |-> columns,
      intercept |-> SumOver(y, rows) \div Cardinality(rows) ]

\* model.predict(X)[0] for a one-row X with the columns the model was
\* fitted on: some function of the fitted model and of every column.
RegressorPredict(m, x) ==
    m.intercept
    + (IF m.kind = "LinearRegression" THEN 0 ELSE 1)
    + SumOver([j \in DOMAIN m.feature_names_in |-> j * x[m.feature_names_in[j]]],
              DOMAIN m.feature_names_in)

\* The check model.predict makes of its argument: a frame whose columns
\* are not the ones the model was fitted on, in that order, is refused with
\* a ValueError.
Accepts(m, columns, x) ==
    /\ columns = m.feature_names_in
    /\ DOMAIN x = Range(columns)

DEFAULT_MODEL_PATH == "models/revenue_model.joblib"

SugarLinearPath == "models/sugar_linear_regression.joblib"

Paths == {DEFAULT_MODEL_PATH, SugarLinearPath}

EthanolLinearPath == "models/ethanol_linear_regression.joblib"

\* Every path a file is written to or read from.
AllPaths == Paths \cup {EthanolLinearPath}

NoFile == [exists |-> FALSE]

\* A file that joblib.dump has opened for writing and not yet written.
Truncated == [exists |-> TRUE, truncated |-> TRUE]

\* An artifact written without its column list.
ArtifactWithoutColumns(m, columns) ==
    [exists |-> TRUE, model |-> m, columns |-> << >>]

\* joblib.dump({"model": model, "columns": X.columns.tolist()}, path): the
\* file the dump leaves at the path.
Artifact(m, columns) ==
    [exists |-> TRUE, model |-> m, columns |-> columns]

\* A load that appends the stored columns to the ones already held.
ExtendedColumns(held, stored) == held \o stored

\* self.feature_columns = artifact.get("columns", [])
LoadedColumns(held, stored) == stored

None == [kind |-> "None"]

\* The keys of the dict each trainer returns.
TrainKeys == {"model_path", "mse", "r2", "n_train", "n_test"}

LinearKeys ==
    { "model_path", "model_type", "mse_test", "rmse_test", "mae_test",
      "r2_test", "r2_train", "n_train", "n_test", "n_features" }

\* What a trainer does on data df with view columns cols: the fitted model,
\* the artifact and the returned dict, or the ValueError of the split.
TrainingRun(kind, cols, df, dropped, target, keys, path) ==
    LET n == Len(df)
        columns == FeatureColumns(cols, df, dropped)
        y == [i \in 1..n |-> df[i][target]]
    IN  IF NTrain(n) = 0
        THEN [status |-> "ValueError"]
        ELSE [ status |-> "returned",
               model |-> FitRegressor(kind, columns, y, TrainRows(n)),
               columns |-> columns,
               metrics |-> [ keys |-> keys, model_path |-> path,
                             n_train |-> NTrain(n), n_test |-> NTest(n),
                             n_features |-> Len(columns) ] ]

\* train(num_samples)
TrainForest(path, df) ==
    TrainingRun("RandomForestRegressor", SugarViewColumns, SugarView(df),
                SugarDropped, "target_net_profit_per_ton", TrainKeys, path)

\* train_linear_regression(num_samples)
TrainLinear(path, df) ==
    TrainingRun("LinearRegression", SugarViewColumns, SugarView(df),
                SugarDropped, "target_net_profit_per_ton", LinearKeys, path)

\* train_linear_regression_ethanol(num_samples)
TrainLinearEthanol(path, df) ==
    TrainingRun("LinearRegression", EthanolViewColumns, EthanolView(df),
                EthanolDropped, "target_ethanol_profit_per_liter",
                LinearKeys, path)

----------------------------------------------------------------------------
(* The Predictor: load / predict / predict_ethanol *)

\* A predictor that loaded whatever it holds.
AlwaysLoad(m) == TRUE

\* "if self.model is None": the predictor loads only when no model is
\* resident.
NeedsLoad(m) == m = None

\* A row in which the column of harvest_month is never set.
NewDfWithoutHarvestMonth(input) ==
    [c \in DOMAIN input \cup MonthIndicators |->
        IF c \in MonthIndicators THEN 0 ELSE input[c]]

\* new_df: the scenario's keys, month_1..month_12 set to 0, and the column
\* of int(harvest_month) set to 1 when harvest_month is given.
NewDf(input) ==
    LET given == "harvest_month" \in DOMAIN input
        hot == IF given THEN {MonthColumn(input["harvest_month"])} ELSE {}
    IN  [c \in DOMAIN input \cup MonthIndicators \cup hot |->
            IF c \in hot THEN 1
            ELSE IF c \in MonthIndicators THEN 0
            ELSE input[c]]

\* An alignment that fills the missing columns with 1.
ReindexFillOne(df, columns) ==
    [c \in Range(columns) |-> IF c \in DOMAIN df THEN df[c] ELSE 1]

\* An alignment that fills the missing columns and keeps the extra ones.
ReindexKeepAll(df, columns) ==
    [c \in Range(columns) \cup DOMAIN df |->
        IF c \in DOMAIN df THEN df[c] ELSE 0]

\* new_df.reindex(columns=self.feature_columns, fill_value=0): the values
\* of the aligned row; its columns are the stored list, in that order.
Reindex(df, columns) ==
    [c \in Range(columns) |-> IF c \in DOMAIN df THEN df[c] ELSE 0]

\* Scenarios handed to predict (values in hundredths).
QuickTestScenario ==
    [ sugar_price |-> 80000, ethanol_price |-> 45, bagasse_value |-> 2500,
      molasses_value |-> 800, avg_temp_plantation |-> 2600,
      rainfall_harvest |-> 12000, ccs_quality |-> 1200, harvest_month |-> 9 ]

ScenarioInputs ==
    { QuickTestScenario,
      [ethanol_price |-> 60, crude_oil_price |-> 8000, harvest_month |-> 3,
       notes |-> 1],
      [sugar_price |-> 80000, harvest_month |-> 13, month_7 |-> 5],
      << >> }

----------------------------------------------------------------------------
(* The state machines *)

\* The threads a training button of the UI can start.
Runs == {"first", "second"}

\* The two background jobs of the UI: _run_training_thread and
\* _run_ethanol_training_thread.
Jobs == {"sugar", "ethanol"}

NoRun == [pc |-> "unstarted", job |-> "none", announced |-> FALSE,
          trained |-> [status |-> "none"], result |-> NoCall]

\* training_status = "idle", training_metrics = {}, show_training_results
\* = False, and the same for the ethanol fields.
NoTraining == [status |-> "idle", metrics |-> << >>, show |-> FALSE]

\* The input fields of State as the class declares them (hundredths;
\* harvest_month as it is).  bagasse_value and molasses_value are declared
\* twice; the later declaration holds.
UiDefaults ==
    [ sugar_price |-> 70000, ethanol_price |-> 50, bagasse_value |-> 2500,
      molasses_value |-> 10000, avg_temp_plantation |-> 2600,
      rainfall_harvest |-> 15000, ccs_quality |-> 1150, harvest_month |-> 9,
      crude_oil_price |-> 8000, gasoline_price |-> 250,
      fermentation_efficiency |-> 90, cane_yield_tons_per_hectare |-> 8000,
      sugar_content_brix |-> 1400, plantation_cost_per_hectare |-> 200000,
      rainfall_mm |-> 120000, sugar_processing_cost |-> 4500,
      ethanol_processing_cost |-> 6500 ]

\* The result fields of State as the class declares them, next to its
\* input fields and to the last line its predicting handlers printed.
NoScreen ==
    [ inputs |-> UiDefaults,
      predicted_profit |-> 0,
      predicted_ethanol_profit |-> 0,
      production_recommendation |-> "",
      sugar_profit_per_hectare |-> 0,
      ethanol_profit_per_hectare |-> 0,
      profit_difference |-> 0,
      recommendation_confidence |-> 0,
      recommendation_reasoning |-> "",
      show_decision_results |-> FALSE,
      sugar_production_tons |-> 0,
      ethanol_production_liters |-> 0,
      printed |-> "" ]

\* No training has been started from the UI.
ThreadsIdle ==
    /\ runs = [r \in Runs |-> NoRun]
    /\ ui = [job \in Jobs |-> NoTraining]
    /\ screen = NoScreen

\* No mapping has been handed to the Decision Engine.
DecisionIdle ==
    /\ conditions = << >>
    /\ locals = NoLocals
    /\ decision = NoCall

GeneratorIdle ==
    /\ clock = 0
    /\ rng = Unseeded
    /\ stream = [n \in 1..MaxSamples |-> [i \in 1..n |-> TypicalDraw]]
    /\ table = NoTable

\* SugarcaneModel(model_path): no model, no columns.
Constructed(path) ==
    /\ model_path = path
    /\ model = None
    /\ feature_columns = << >>

InstanceIdle ==
    /\ Constructed(DEFAULT_MODEL_PATH)
    /\ files = [p \in AllPaths |-> NoFile]
    /\ outcome = NoCall

(* The Decision Engine *)

InitDecision ==
    /\ conditions \in ConditionInputs
    /\ locals = NoLocals
    /\ decision = NoCall
    /\ GeneratorIdle
    /\ InstanceIdle
    /\ ThreadsIdle

\* A caller invokes predict_optimal_production(conditions).
PredictOptimalProduction ==
    /\ decision = NoCall
    /\ decision' = predict_optimal_production(conditions)
    /\ locals' = IF MissingSubscripts(conditions) = {}
                 THEN [status |-> "set", v |-> EngineLocals(conditions)]
                 ELSE NoLocals
    /\ UNCHANGED conditions
    /\ UNCHANGED generatorVars
    /\ UNCHANGED instanceVars
    /\ UNCHANGED threadVars

NextDecision == PredictOptimalProduction

SpecDecision == InitDecision /\ [][NextDecision]_vars

(* The generator *)

InitGenerator ==
    /\ DecisionIdle
    /\ clock = 0
    /\ rng = Unseeded
    /\ stream \in Streams
    /\ table = NoTable
    /\ InstanceIdle
    /\ ThreadsIdle

\* Time passes between calls.
Tick ==
    /\ clock < MaxClock
    /\ clock' = clock + 1
    /\ UNCHANGED <<rng, stream, table>>
    /\ UNCHANGED decisionVars
    /\ UNCHANGED threadVars
    /\ UNCHANGED instanceVars

\* Sample counts that are not positive.
InvalidCounts == {0, -1}

\* generate_unified_sugarcane_data(num_samples).  With num_samples = 0
\* every column is empty and the empty table is returned; a negative
\* num_samples makes pd.date_range raise ValueError, after the seeding and
\* before the first draw.
GenerateUnified(n) ==
    /\ rng' = Seeded(DrawsPerRow * Max(n, 0))
    /\ table' = IF n < 0
                THEN [status |-> "ValueError", view |-> "unified",
                      num_samples |-> n]
                ELSE [status |-> "returned", view |-> "unified",
                      num_samples |-> n,
                      df |-> IF n = 0 THEN << >>
                             ELSE UnifiedTable(clock, stream[n])]
    /\ UNCHANGED <<clock, stream>>
    /\ UNCHANGED decisionVars
    /\ UNCHANGED threadVars
    /\ UNCHANGED instanceVars

\* generate_synthetic_data_sugar(num_samples)
GenerateSugar(n) ==
    /\ rng' = Seeded(DrawsPerRow * n)
    /\ table' = [status |-> "returned", view |-> "sugar", num_samples |-> n,
                 df |-> SugarView(UnifiedTable(clock, stream[n]))]
    /\ UNCHANGED <<clock, stream>>
    /\ UNCHANGED decisionVars
    /\ UNCHANGED threadVars
    /\ UNCHANGED instanceVars

\* generate_synthetic_data_etanol(num_samples)
GenerateEthanol(n) ==
    /\ rng' = Seeded(DrawsPerRow * n)
    /\ table' = [status |-> "returned", view |-> "ethanol", num_samples |-> n,
                 df |-> EthanolView(UnifiedTable(clock, stream[n]))]
    /\ UNCHANGED <<clock, stream>>
    /\ UNCHANGED decisionVars
    /\ UNCHANGED threadVars
    /\ UNCHANGED instanceVars

NextGenerator ==
    \/ Tick
    \/ \E n \in InvalidCounts \cup 1..MaxSamples : GenerateUnified(n)
    \/ \E n \in 1..MaxSamples : GenerateSugar(n)
    \/ \E n \in 1..MaxSamples : GenerateEthanol(n)

SpecGenerator == InitGenerator /\ [][NextGenerator]_vars

(* The Feature Preparer applied to tables of a caller's own *)

\* The columns of the drop lists a table handed to the preparers may or may
\* not have: date, and weather_penalty of the unified table.
OptionalColumns == {"date", "weather_penalty"}

\* The tables handed to a preparer: a view of the generated rows, with the
\* optional columns named in present and with or without the target.
PreparerColumns(viewColumns, present, target, withTarget) ==
    SelectSeq(viewColumns,
              LAMBDA c : /\ c \in OptionalColumns => c \in present
                         /\ c = target => withTarget)
    \o SelectSeq(<<"weather_penalty">>, LAMBDA c : c \in present)

PreparerRows(columns, view, unified) ==
    [i \in DOMAIN view |->
        [c \in Range(columns) |->
            IF c \in DOMAIN view[i] THEN view[i][c] ELSE unified[i][c]]]

InitPreparer ==
    /\ DecisionIdle
    /\ clock = 0
    /\ rng = Unseeded
    /\ stream \in Streams
    /\ table = NoTable
    /\ InstanceIdle
    /\ ThreadsIdle

\* What a call of a preparer leaves with its caller.
PreparerCalled(name, columns, result) ==
    /\ outcome' = [op |-> name, given |-> columns, result |-> result]
    /\ UNCHANGED <<model_path, model, feature_columns, files>>
    /\ UNCHANGED decisionVars
    /\ UNCHANGED generatorVars
    /\ UNCHANGED threadVars

\* self._prepare_features(df)
PrepareFeatures(n, present, withTarget) ==
    \E unified \in {UnifiedTable(clock, stream[n])} :
        LET columns == PreparerColumns(SugarViewColumns, present,
                                       "target_net_profit_per_ton", withTarget)
            df == PreparerRows(columns, SugarView(unified), unified)
        IN  PreparerCalled("_prepare_features", columns,
                           Prepared(columns, df, SugarDropped,
                                    "target_net_profit_per_ton"))

\* self._prepare_ethanol_features(df)
PrepareEthanolFeatures(n, present, withTarget) ==
    \E unified \in {UnifiedTable(clock, stream[n])} :
        LET columns == PreparerColumns(EthanolViewColumns, present,
                                       "target_ethanol_profit_per_liter",
                                       withTarget)
            df == PreparerRows(columns, EthanolView(unified), unified)
        IN  PreparerCalled("_prepare_ethanol_features", columns,
                           Prepared(columns, df, EthanolDropped,
                                    "target_ethanol_profit_per_liter"))

NextPreparer ==
    \/ \E n \in 1..MaxSamples, present \in SUBSET OptionalColumns,
          withTarget \in BOOLEAN : PrepareFeatures(n, present, withTarget)
    \/ \E n \in 1..MaxSamples, present \in SUBSET OptionalColumns,
          withTarget \in BOOLEAN :
              PrepareEthanolFeatures(n, present, withTarget)

SpecPreparer == InitPreparer /\ [][NextPreparer]_vars

(* One SugarcaneModel instance and the artifact files *)

\* The streams the instance's trainers are run on: the rows alternate
\* between two draws.
TrainingStreams ==
    { [n \in 1..MaxSamples |->
          [i \in 1..n |-> IF i % 2 = 1 THEN pair[1] ELSE pair[2]]] :
        pair \in {<<NoisyDraw, TypicalDraw>>, <<EdgeDraw, OtherNoisyDraw>>} }

Init ==
    /\ DecisionIdle
    /\ clock = 0
    /\ rng = Unseeded
    /\ stream \in TrainingStreams
    /\ table = NoTable
    /\ InstanceIdle
    /\ ThreadsIdle

\* SugarcaneModel(model_path=path): a fresh instance replaces the old one.
Construct(path) ==
    /\ model_path' = path
    /\ model' = None
    /\ feature_columns' = << >>
    /\ outcome' = NoCall
    /\ UNCHANGED files
    /\ UNCHANGED decisionVars
    /\ UNCHANGED threadVars
    /\ UNCHANGED generatorVars

\* The effect of a trainer's run on the instance, the files and the caller.
Trained(name, n, run) ==
    /\ rng' = Seeded(DrawsPerRow * n)
    /\ IF run.status = "returned"
       THEN /\ files' = [files EXCEPT ![model_path] =
                            Artifact(run.model, run.columns)]
            /\ model' = run.model
            /\ feature_columns' = run.columns
            /\ outcome' = [op |-> name, status |-> "returned",
                           value |-> run.metrics]
       ELSE /\ outcome' = [op |-> name, status |-> run.status,
                           logged |-> FALSE]
            /\ UNCHANGED <<files, model, feature_columns>>
    /\ UNCHANGED <<model_path, clock, stream, table>>
    /\ UNCHANGED decisionVars
    /\ UNCHANGED threadVars

\* self.train(num_samples=n)
Train(n) ==
    \E run \in {TrainForest(model_path, UnifiedTable(clock, stream[n]))} :
        Trained("train", n, run)

\* self.train_linear_regression(num_samples=n)
TrainLinearRegression(n) ==
    \E run \in {TrainLinear(model_path, UnifiedTable(clock, stream[n]))} :
        Trained("train_linear_regression", n, run)

\* self.train_linear_regression_ethanol(num_samples=n)
TrainLinearRegressionEthanol(n) ==
    \E run \in {TrainLinearEthanol(model_path,
                                   UnifiedTable(clock, stream[n]))} :
        Trained("train_linear_regression_ethanol", n, run)

\* The rows train.main() draws: its 5000 seeded rows are stood for by one
\* row for each harvest month, since in 5000 rows every month occurs.
MainDraws == [m \in Months |-> [TypicalDraw EXCEPT !.harvest_month = m]]

\* train.main() run from the command line: a process of its own builds a
\* SugarcaneModel at SugarLinearPath and trains the linear model there.
TrainMain ==
    \E run \in {TrainLinear(SugarLinearPath,
                            UnifiedTable(clock, MainDraws))} :
        /\ run.status = "returned"
        /\ files' = [files EXCEPT ![SugarLinearPath] =
                        Artifact(run.model, run.columns)]
        /\ UNCHANGED <<model_path, model, feature_columns, outcome>>
        /\ UNCHANGED decisionVars
        /\ UNCHANGED threadVars
        /\ UNCHANGED generatorVars

\* self.load()
Load ==
    /\ IF files[model_path] = Truncated
       THEN /\ outcome' = [op |-> "load", status |-> "EOFError"]
            /\ UNCHANGED <<model, feature_columns>>
       ELSE IF files[model_path].exists
       THEN /\ model' = files[model_path].model
            /\ feature_columns' =
                   LoadedColumns(feature_columns, files[model_path].columns)
            /\ outcome' = [op |-> "load", status |-> "returned"]
       ELSE /\ outcome' = [op |-> "load", status |-> "FileNotFoundError"]
            /\ UNCHANGED <<model, feature_columns>>
    /\ UNCHANGED <<model_path, files>>
    /\ UNCHANGED decisionVars
    /\ UNCHANGED threadVars
    /\ UNCHANGED generatorVars

\* The body shared by predict and predict_ethanol.
Predicted(name, input) ==
    /\ IF NeedsLoad(model) /\ ~files[model_path].exists
       THEN /\ outcome' = [op |-> name, status |-> "FileNotFoundError",
                           input |-> input]
            /\ UNCHANGED <<model, feature_columns>>
       ELSE IF NeedsLoad(model) /\ files[model_path] = Truncated
       THEN /\ outcome' = [op |-> name, status |-> "EOFError",
                           input |-> input]
            /\ UNCHANGED <<model, feature_columns>>
       ELSE /\ model' = IF NeedsLoad(model) THEN files[model_path].model
                        ELSE model
            /\ feature_columns' =
                   IF NeedsLoad(model)
                   THEN LoadedColumns(feature_columns,
                                      files[model_path].columns)
                   ELSE feature_columns
            /\ outcome' =
                   LET X_new == Reindex(NewDf(input), feature_columns')
                   IN  IF Accepts(model', feature_columns', X_new)
                       THEN [op |-> name, status |-> "returned",
                             input |-> input, columns |-> feature_columns',
                             X_new |-> X_new,
                             value |-> RegressorPredict(model', X_new)]
                       ELSE [op |-> name, status |-> "ValueError",
                             input |-> input]
    /\ UNCHANGED <<model_path, files>>
    /\ UNCHANGED decisionVars
    /\ UNCHANGED threadVars
    /\ UNCHANGED generatorVars

\* self.predict(input_dict)
Predict(input) == Predicted("predict", input)

\* self.predict_ethanol(input_dict)
PredictEthanol(input) == Predicted("predict_ethanol", input)

Next ==
    \/ \E path \in Paths : Construct(path)
    \/ \E n \in 1..MaxSamples : Train(n)
    \/ \E n \in 1..MaxSamples : TrainLinearRegression(n)
    \/ \E n \in 1..MaxSamples : TrainLinearRegressionEthanol(n)
    \/ TrainMain
    \/ Load
    \/ \E input \in ScenarioInputs : Predict(input)
    \/ \E input \in ScenarioInputs : PredictEthanol(input)

Spec == Init /\ [][Next]_vars

(* The background trainings of the UI *)

\* The path a job writes: train.main's for the sugar job, the one
\* _run_ethanol_training_thread names for the ethanol job.
JobPath(job) ==
    IF job = "sugar" THEN SugarLinearPath ELSE EthanolLinearPath

\* What the trainer of a job computes: train.main calls
\* train_linear_regression(num_samples=5000), the ethanol thread
\* train_linear_regression_ethanol(num_samples=5000).
JobRun(job) ==
    IF job = "sugar"
    THEN TrainLinear(SugarLinearPath, UnifiedTable(clock, MainDraws))
    ELSE TrainLinearEthanol(EthanolLinearPath, UnifiedTable(clock, MainDraws))

\* The entry point a job's thread calls logs a failure before raising it
\* only in train.main (its except clause prints and re-raises).
JobLogsFailure(job) == job = "sugar"

InitTraining ==
    /\ DecisionIdle
    /\ GeneratorIdle
    /\ InstanceIdle
    /\ ThreadsIdle

\* start_training / start_ethanol_training, first statement:
\* threading.Thread(target=...).start().  The runs are named in the order
\* in which they are started.
StartThread(r, job) ==
    /\ runs[r].pc = "unstarted"
    /\ r = "second" => runs["first"].pc # "unstarted"
    /\ runs' = [runs EXCEPT ![r].pc = "spawned", ![r].job = job]
    /\ UNCHANGED ui
    /\ UNCHANGED screen
    /\ UNCHANGED decisionVars
    /\ UNCHANGED generatorVars
    /\ UNCHANGED instanceVars

\* start_training / start_ethanol_training, last statement:
\* self.training_status = "started"
SetStarted(r) ==
    /\ runs[r].pc # "unstarted"
    /\ ~runs[r].announced
    /\ runs' = [runs EXCEPT ![r].announced = TRUE]
    /\ ui' = [ui EXCEPT ![runs[r].job].status = "started"]
    /\ UNCHANGED screen
    /\ UNCHANGED decisionVars
    /\ UNCHANGED generatorVars
    /\ UNCHANGED instanceVars

\* The thread's first statement: self.training_status = "running"
SetRunning(r) ==
    /\ runs[r].pc = "spawned"
    /\ runs' = [runs EXCEPT ![r].pc = "running"]
    /\ ui' = [ui EXCEPT ![runs[r].job].status = "running"]
    /\ UNCHANGED screen
    /\ UNCHANGED decisionVars
    /\ UNCHANGED generatorVars
    /\ UNCHANGED instanceVars

\* The trainer up to the dump's open: a SugarcaneModel of the thread's own,
\* the generated data, the split, the fit and the metrics, held in the
\* thread's local variables; then joblib.dump opens the path for writing,
\* which empties the file.
OpenDump(r) ==
    /\ runs[r].pc = "running"
    /\ runs' = [runs EXCEPT ![r].pc = "opened",
                           ![r].trained = JobRun(runs[r].job)]
    /\ rng' = Seeded(DrawsPerRow * Len(MainDraws))
    /\ files' = [files EXCEPT ![JobPath(runs[r].job)] = Truncated]
    /\ UNCHANGED <<clock, stream, table>>
    /\ UNCHANGED <<model_path, model, feature_columns, outcome>>
    /\ UNCHANGED ui
    /\ UNCHANGED screen
    /\ UNCHANGED decisionVars

\* A dump that writes the model and leaves the column list of the file as
\* it finds it.
WriteModelOnly(r) ==
    LET run == runs[r].trained
        path == JobPath(runs[r].job)
        held == IF files[path] = Truncated THEN << >>
                ELSE files[path].columns
    IN  /\ runs[r].pc = "opened"
        /\ runs' = [runs EXCEPT ![r].pc = "dumped"]
        /\ files' = [files EXCEPT ![path] = Artifact(run.model, held)]
        /\ UNCHANGED <<model_path, model, feature_columns, outcome>>
        /\ UNCHANGED ui
        /\ UNCHANGED screen
        /\ UNCHANGED decisionVars
        /\ UNCHANGED generatorVars

\* joblib.dump writes the pickled dict, model and columns together, and
\* closes the file.
WriteDump(r) ==
    LET run == runs[r].trained
    IN  /\ runs[r].pc = "opened"
        /\ runs' = [runs EXCEPT ![r].pc = "dumped"]
        /\ files' = [files EXCEPT ![JobPath(runs[r].job)] =
                        Artifact(run.model, run.columns)]
        /\ UNCHANGED <<model_path, model, feature_columns, outcome>>
        /\ UNCHANGED ui
        /\ UNCHANGED screen
        /\ UNCHANGED decisionVars
        /\ UNCHANGED generatorVars

\* The trainer assigns the model and the columns to its own instance and
\* returns the metrics; train.main returns them to the thread; the thread
\* stores the metrics, shows them and sets the status to "completed".
ThreadCompleted(r) ==
    /\ runs[r].pc = "dumped"
    /\ runs' = [runs EXCEPT
                  ![r].pc = "done",
                  ![r].result = [status |-> "returned",
                                 value |-> runs[r].trained.metrics]]
    /\ ui' = [ui EXCEPT ![runs[r].job] =
                 [status |-> "completed",
                  metrics |-> runs[r].trained.metrics,
                  show |-> TRUE]]
    /\ UNCHANGED screen
    /\ UNCHANGED decisionVars
    /\ UNCHANGED generatorVars
    /\ UNCHANGED instanceVars

\* os.makedirs or joblib.dump raises OSError: before the file is opened, or
\* while it is written.  The trainer has no handler; train.main prints the
\* error and raises it again.  The thread's except clause sets the status
\* to "failed" and hides the results.
ThreadFailed(r) ==
    /\ runs[r].pc \in {"running", "opened"}
    /\ runs' = [runs EXCEPT
                  ![r].pc = "done",
                  ![r].result = [status |-> "OSError",
                                 logged |-> JobLogsFailure(runs[r].job)]]
    /\ ui' = [ui EXCEPT ![runs[r].job].status = "failed",
                        ![runs[r].job].show = FALSE]
    /\ UNCHANGED screen
    /\ UNCHANGED decisionVars
    /\ UNCHANGED generatorVars
    /\ UNCHANGED instanceVars

\* test_ethanol.py run from the command line: a process of its own trains
\* the ethanol model on its own 100 rows, stood for by the longest stream,
\* at the path the UI's ethanol training writes.  A failure is printed by
\* the script and nothing is written.
TestEthanol ==
    \E run \in {TrainLinearEthanol(EthanolLinearPath,
                                   UnifiedTable(clock, stream[MaxSamples]))} :
        /\ run.status = "returned"
        /\ files' = [files EXCEPT ![EthanolLinearPath] =
                        Artifact(run.model, run.columns)]
        /\ UNCHANGED <<model_path, model, feature_columns, outcome>>
        /\ UNCHANGED decisionVars
        /\ UNCHANGED threadVars
        /\ UNCHANGED generatorVars

NextTraining ==
    \/ \E r \in Runs, job \in Jobs : StartThread(r, job)
    \/ \E r \in Runs : SetStarted(r)
    \/ \E r \in Runs : SetRunning(r)
    \/ \E r \in Runs : OpenDump(r)
    \/ \E r \in Runs : WriteDump(r)
    \/ \E r \in Runs : ThreadCompleted(r)
    \/ \E r \in Runs : ThreadFailed(r)
    \/ TestEthanol
    \/ \E path \in {SugarLinearPath, EthanolLinearPath} : Construct(path)
    \/ Load

SpecTraining == InitTraining /\ [][NextTraining]_vars

(* The handlers of the UI's State that predict *)

\* The inputs the setters have left in the State: the declared values, or
\* a cheaper sugar and a dearer, cheaply processed ethanol in March.
UiInputs ==
    { UiDefaults,
      [UiDefaults EXCEPT !.sugar_price = 45000, !.ethanol_price = 80,
                         !.ethanol_processing_cost = 3000,
                         !.harvest_month = 3] }

\* The conditions predict_optimal_strategy builds from the State's fields,
\* in the units of the Decision Engine.
UiConditions(inputs) ==
    [ cane_yield_tons_per_hectare |->
          inputs.cane_yield_tons_per_hectare \div 100,
      sugar_content_brix |-> inputs.sugar_content_brix \div 100,
      ccs_quality |-> inputs.ccs_quality \div 10,
      avg_temp_plantation |-> inputs.avg_temp_plantation \div 10,
      rainfall_mm |-> inputs.rainfall_mm \div 100,
      harvest_month |-> inputs.harvest_month,
      sugar_price_per_kg |-> inputs.sugar_price \div 100,
      ethanol_price_per_liter |-> inputs.ethanol_price,
      fermentation_efficiency |-> inputs.fermentation_efficiency,
      plantation_cost_per_hectare |->
          inputs.plantation_cost_per_hectare * (MoneyScale \div 100),
      sugar_processing_cost_per_ton_cane |->
          inputs.sugar_processing_cost * (MoneyScale \div 100),
      ethanol_processing_cost_per_ton_cane |->
          inputs.ethanol_processing_cost * (MoneyScale \div 100),
      bagasse_value_per_ton |-> inputs.bagasse_value,
      molasses_value_per_ton |-> inputs.molasses_value ]

\* inp of predict_profit
UiSugarScenario(inputs) ==
    [ sugar_price |-> inputs.sugar_price,
      ethanol_price |-> inputs.ethanol_price,
      bagasse_value |-> inputs.bagasse_value,
      molasses_value |-> inputs.molasses_value,
      avg_temp_plantation |-> inputs.avg_temp_plantation,
      rainfall_harvest |-> inputs.rainfall_harvest,
      ccs_quality |-> inputs.ccs_quality,
      harvest_month |-> inputs.harvest_month ]

\* scenario of predict_ethanol_profit
UiEthanolScenario(inputs) ==
    [ ethanol_price |-> inputs.ethanol_price,
      crude_oil_price |-> inputs.crude_oil_price,
      gasoline_price |-> inputs.gasoline_price,
      ccs_quality |-> inputs.ccs_quality,
      fermentation_efficiency |-> inputs.fermentation_efficiency,
      harvest_month |-> inputs.harvest_month ]

\* SugarcaneModel(path).predict(input) on an instance built for the call:
\* no model is resident, so the artifact at the path is loaded, the row is
\* aligned to its columns and handed to its model.
PredictWithNewInstance(path, input) ==
    IF ~files[path].exists
    THEN [status |-> "FileNotFoundError"]
    ELSE IF files[path] = Truncated
    THEN [status |-> "EOFError"]
    ELSE LET X_new == Reindex(NewDf(input), files[path].columns)
         IN  IF Accepts(files[path].model, files[path].columns, X_new)
             THEN [status |-> "returned",
                   value |-> RegressorPredict(files[path].model, X_new)]
             ELSE [status |-> "ValueError"]

\* An except clause that also sets the numeric decision outputs to zero.
DecisionFailedZeroing(s) ==
    [s EXCEPT !.production_recommendation = "error",
              !.recommendation_reasoning = "Error calculating recommendation",
              !.show_decision_results = FALSE,
              !.printed = "Decision prediction error",
              !.sugar_profit_per_hectare = 0,
              !.ethanol_profit_per_hectare = 0,
              !.profit_difference = 0,
              !.recommendation_confidence = 0,
              !.sugar_production_tons = 0,
              !.ethanol_production_liters = 0]

\* The except clause of predict_optimal_strategy: three fields are
\* assigned, the others stay as they are.
DecisionFailed(s) ==
    [s EXCEPT !.production_recommendation = "error",
              !.recommendation_reasoning = "Error calculating recommendation",
              !.show_decision_results = FALSE,
              !.printed = "Decision prediction error"]

\* The assignments of predict_optimal_strategy after the engine returned.
DecisionShown(s, result) ==
    [s EXCEPT !.production_recommendation = result.recommendation,
              !.sugar_profit_per_hectare = result.sugar_profit_per_hectare,
              !.ethanol_profit_per_hectare = result.ethanol_profit_per_hectare,
              !.profit_difference = result.profit_difference,
              !.recommendation_confidence = result.confidence,
              !.recommendation_reasoning = result.recommendation,
              !.sugar_production_tons = result.sugar_production_tons,
              !.ethanol_production_liters = result.ethanol_production_liters,
              !.show_decision_results = TRUE]

InitUI ==
    /\ DecisionIdle
    /\ GeneratorIdle
    /\ InstanceIdle
    /\ runs = [r \in Runs |-> NoRun]
    /\ ui = [job \in Jobs |-> NoTraining]
    /\ screen \in {[NoScreen EXCEPT !.inputs = inputs] : inputs \in UiInputs}

\* A handler of the State returns: its model instance was a local one.
HandlerReturns ==
    /\ UNCHANGED <<runs, ui>>
    /\ UNCHANGED decisionVars
    /\ UNCHANGED generatorVars
    /\ UNCHANGED instanceVars

\* State.predict_optimal_strategy().  The fields hold numbers and every
\* key is supplied, so the engine itself returns; raised stands for an
\* exception of the try block that no field value brings about (memory
\* running out, the import of the model module failing).
PredictOptimalStrategy(raised) ==
    /\ \E call \in {predict_optimal_production(UiConditions(screen.inputs))} :
          screen' = IF raised \/ call.status # "returned"
                    THEN DecisionFailed(screen)
                    ELSE DecisionShown(screen, call.result)
    /\ HandlerReturns

\* State.predict_profit(): SugarcaneModel() stands at DEFAULT_MODEL_PATH.
PredictProfit ==
    /\ \E call \in {PredictWithNewInstance(DEFAULT_MODEL_PATH,
                                           UiSugarScenario(screen.inputs))} :
          screen' = IF call.status = "returned"
                    THEN [screen EXCEPT !.predicted_profit = call.value]
                    ELSE [screen EXCEPT !.predicted_profit = 0,
                                        !.printed = "Prediction error"]
    /\ HandlerReturns

\* State.predict_ethanol_profit(): an instance at the ethanol path, load(),
\* predict_ethanol(scenario).
PredictEthanolProfit ==
    /\ \E call \in {PredictWithNewInstance(EthanolLinearPath,
                                           UiEthanolScenario(screen.inputs))} :
          screen' = IF call.status = "returned"
                    THEN [screen EXCEPT
                              !.predicted_ethanol_profit = call.value]
                    ELSE [screen EXCEPT
                              !.predicted_ethanol_profit = 0,
                              !.printed = "Ethanol prediction error"]
    /\ HandlerReturns

\* quick_test.py run from the command line: a process of its own trains
\* the forest of SugarcaneModel() on its own 200 rows, stood for by the
\* longest stream, which writes DEFAULT_MODEL_PATH.
QuickTest ==
    \E run \in {TrainForest(DEFAULT_MODEL_PATH,
                            UnifiedTable(clock, stream[MaxSamples]))} :
        /\ run.status = "returned"
        /\ files' = [files EXCEPT ![DEFAULT_MODEL_PATH] =
                        Artifact(run.model, run.columns)]
        /\ UNCHANGED <<model_path, model, feature_columns, outcome>>
        /\ UNCHANGED decisionVars
        /\ UNCHANGED threadVars
        /\ UNCHANGED generatorVars

\* start_training / start_ethanol_training in the interleaving in which
\* the handler reaches its end before the thread's first statement (the
\* other interleavings are those of SpecTraining).
StartTraining(r, job) ==
    /\ runs[r].pc = "unstarted"
    /\ r = "second" => runs["first"].pc # "unstarted"
    /\ runs' = [runs EXCEPT ![r].pc = "spawned", ![r].job = job,
                           ![r].announced = TRUE]
    /\ ui' = [ui EXCEPT ![job].status = "started"]
    /\ UNCHANGED screen
    /\ UNCHANGED decisionVars
    /\ UNCHANGED generatorVars
    /\ UNCHANGED instanceVars

NextUI ==
    \/ \E r \in Runs, job \in Jobs : StartTraining(r, job)
    \/ \E r \in Runs : SetRunning(r)
    \/ \E r \in Runs : OpenDump(r)
    \/ \E r \in Runs : WriteDump(r)
    \/ \E r \in Runs : ThreadCompleted(r)
    \/ \E r \in Runs : ThreadFailed(r)
    \/ QuickTest
    \/ \E raised \in BOOLEAN : PredictOptimalStrategy(raised)
    \/ PredictProfit
    \/ PredictEthanolProfit

SpecUI == InitUI /\ [][NextUI]_vars

----------------------------------------------------------------------------
(* Claims about the Decision Engine, checked under SpecDecision *)

Returned == decision.status = "returned"

\* C1: whenever predict_optimal_production returns, the recommendation is
\* "ethanol" exactly when profit_diff (ethanol profit minus sugar profit) is
\* above 500, "sugar" exactly when it is below -500, and "mixed" otherwise,
\* the values 500 and -500 themselves included; no other label is returned.
C1_RecommendationThresholds ==
    Returned =>
        LET d == locals.v.profit_diff
            rec == decision.result.recommendation
        IN  /\ rec \in {"ethanol", "sugar", "mixed"}
            /\ rec = "ethanol" <=> d > 500 * MoneyScale
            /\ rec = "sugar" <=> d < -(500 * MoneyScale)

\* A call returned "mixed" with profit_diff exactly 500, and another exactly -500.
C1_Witness ==
    /\ Returned
    /\ locals.v.profit_diff = 500 * MoneyScale
    /\ decision.result.recommendation = "mixed"

\* C2 as stated: the returned confidence equals min(|profit_diff| / 2000, 1.0).
C2_ConfidenceIsExactRamp ==
    Returned =>
        decision.result.confidence * 2000 * MoneyScale
            = 100 * Min(Abs(locals.v.profit_diff), 2000 * MoneyScale)

\* C2, amended: the returned confidence is min(|profit_diff| / 2000, 1.0)
\* rounded to two decimals; it lies in [0, 1], is exactly 1.0 whenever
\* |profit_diff| >= 2000 and exactly 0.0 when profit_diff is 0.
C2_ConfidenceIsRoundedRamp ==
    Returned =>
        LET d == Abs(locals.v.profit_diff)
            full == 2000 * MoneyScale
            conf == decision.result.confidence
        IN  /\ conf = RoundHalfEven(100 * Min(d, full), full)
            /\ 0 <= conf /\ conf <= 100
            /\ d >= full => conf = 100
            /\ d = 0 => conf = 0

\* A call whose ramp value has more than two decimals returned, and the
\* gap is beyond the saturation point in another.
C2_Witness ==
    /\ Returned
    /\ Abs(locals.v.profit_diff) < 2000 * MoneyScale
    /\ Abs(locals.v.profit_diff) % (20 * MoneyScale) # 0
    /\ decision.result.confidence > 0

\* C3: the sugar and ethanol profit the Decision Engine computes equal the
\* profits the generator computes, before noise, for a row with the same
\* inputs; the temperature term of the weather penalty never exceeds 15 and
\* the rainfall term never exceeds 10.
C3_EngineMatchesGenerator ==
    Returned =>
        LET row == [k \in ConditionKeys |->
                       IF k = "rainfall_mm" THEN GetRainfall(conditions)
                       ELSE IF k \in DOMAIN conditions THEN conditions[k]
                       ELSE 0]
        IN  /\ locals.v.sugar_profit = RowSugarProfit(row)
            /\ locals.v.ethanol_profit = RowEthanolProfit(row)
            /\ locals.v.weather_penalty
                   <= (TempPenaltyCap + RainPenaltyCap) * MoneyScale

\* C4: a mapping that lacks one of the listed keys other than rainfall_mm
\* makes the call fail with an error naming a missing key; a mapping that
\* lacks only rainfall_mm gives the result of rainfall_mm = 1200.
C4_MissingKeyFails ==
    decision.status # "none" =>
        /\ (ConditionKeys \ {"rainfall_mm"}) \ DOMAIN conditions # {}
              => /\ decision.status = "KeyError"
                 /\ decision.key \in ConditionKeys \ DOMAIN conditions
        /\ ConditionKeys \ DOMAIN conditions = {"rainfall_mm"}
              => decision = predict_optimal_production(
                     [k \in ConditionKeys |->
                         IF k = "rainfall_mm" THEN 1200 ELSE conditions[k]])

----------------------------------------------------------------------------
(* Claims about the generator, checked under SpecGenerator *)

TableReturned == table.status = "returned" /\ table.view = "unified"

\* The rows the seeded generator yielded for the table last returned.
TableDraws == stream[table.num_samples]

C6_DifferenceOfReturnedProfits ==
    TableReturned =>
        \A i \in DOMAIN table.df :
            table.df[i].profit_difference =
                table.df[i].ethanol_profit_per_hectare
                - table.df[i].sugar_profit_per_hectare

\* C7: a call with the same num_samples as the call before it returns the
\* same table in every column, whatever the wall clock says.
C7_SameSamplesSameTable ==
    [][\A n \in 1..MaxSamples :
          (TableReturned /\ table.num_samples = n /\ GenerateUnified(n))
              => table'.df = table.df]_vars

\* C8: a call of generate_unified_sugarcane_data leaves the state of the
\* process-wide random-number generator as it found it.
C8_GeneratorLeavesRngAlone ==
    [][(\E n \in 1..MaxSamples : GenerateUnified(n)) => rng' = rng]_vars

\* The input fields of a returned row.
InputFields ==
    { "cane_yield_tons_per_hectare", "sugar_content_brix", "ccs_quality",
      "avg_temp_plantation", "rainfall_mm", "harvest_month",
      "plantation_cost_per_hectare", "sugar_price_per_kg",
      "ethanol_price_per_liter", "crude_oil_price", "gasoline_price",
      "bagasse_value_per_ton", "molasses_value_per_ton",
      "sugar_processing_cost_per_ton_cane",
      "ethanol_processing_cost_per_ton_cane", "fermentation_efficiency" }

\* C9 as stated: rows that agree on all returned input fields have equal
\* profits, and each profit is revenue plus byproduct revenue minus
\* processing cost, plantation cost and weather penalty of its row.
C9_ProfitsFollowReturnedFields ==
    TableReturned =>
        /\ \A i, j \in DOMAIN table.df :
              (\A f \in InputFields : table.df[i][f] = table.df[j][f])
                  => /\ table.df[i].sugar_profit_per_hectare
                           = table.df[j].sugar_profit_per_hectare
                     /\ table.df[i].ethanol_profit_per_hectare
                           = table.df[j].ethanol_profit_per_hectare
        /\ \A i \in DOMAIN table.df :
              LET row == table.df[i]
              IN  /\ row.sugar_profit_per_hectare =
                         row.sugar_revenue + row.sugar_byproduct_revenue
                         - row.sugar_processing_cost
                         - row.plantation_cost_per_hectare
                         - row.weather_penalty
                  /\ row.ethanol_profit_per_hectare =
                         row.ethanol_revenue + row.ethanol_byproduct_revenue
                         - row.ethanol_processing_cost
                         - row.plantation_cost_per_hectare
                         - row.weather_penalty

\* C9, amended: the profits of a row are computed from that row's own draws
\* alone: each is the formula value of the row's (clipped, unrounded)
\* inputs times the row's own noise factor, rounded to two decimals.
C9_ProfitsFollowOwnDraws ==
    TableReturned =>
        \A i \in DOMAIN table.df :
            LET d == TableDraws[i]
                r == ClipDraw(d)
                sugar ==
                    RowSugarTons(r) * r.sugar_price_per_kg
                    + RowSugarByproduct(r)
                    - r.cane_yield_tons_per_hectare
                        * r.sugar_processing_cost_per_ton_cane
                    - r.plantation_cost_per_hectare - WeatherPenalty(r)
                ethanol ==
                    (RowEthanolLiters(r) * r.ethanol_price_per_liter) \div 10
                    + RowBagasseRevenue(r)
                    - r.cane_yield_tons_per_hectare
                        * r.ethanol_processing_cost_per_ton_cane
                    - r.plantation_cost_per_hectare - WeatherPenalty(r)
            IN  /\ table.df[i].sugar_profit_per_hectare
                       = RoundHalfEven(sugar * d.noise_sugar, 1000)
                /\ table.df[i].ethanol_profit_per_hectare
                       = RoundHalfEven(ethanol * d.noise_ethanol, 1000)

\* A table of two rows with different draws and different noise factors was
\* returned.
C9_Witness ==
    /\ TableReturned
    /\ table.num_samples = 2
    /\ TableDraws[1].noise_sugar # TableDraws[2].noise_sugar
    /\ TableDraws[1].noise_ethanol # TableDraws[2].noise_ethanol
    /\ TableDraws[2].noise_sugar # 10
    /\ table.df[1].sugar_profit_per_hectare
           # table.df[2].sugar_profit_per_hectare

----------------------------------------------------------------------------
(* Claims about the Predictor *)

\* What the regressor m answers for scenario input aligned to columns.
Answer(m, columns, input) ==
    RegressorPredict(m, Reindex(NewDf(input), columns))

\* A step in which predict or predict_ethanol is called on input.
PredictStep(input) ==
    /\ "input" \in DOMAIN outcome'
    /\ outcome'.input = input
    /\ Predict(input) \/ PredictEthanol(input)

\* C10: predict and predict_ethanol on an instance without a resident model
\* load the artifact at model_path and answer with it; without an artifact
\* they raise FileNotFoundError, return no number and leave model null and
\* feature_columns as they were; with a resident model they do not load.
C10_LazyLoad ==
    [][\A input \in ScenarioInputs :
          PredictStep(input) =>
              LET file == files[model_path]
              IN  /\ (model = None /\ file.exists) =>
                         /\ model' = file.model
                         /\ feature_columns' = file.columns
                         /\ outcome'.status = "returned"
                         /\ outcome'.value
                                = Answer(file.model, file.columns, input)
                  /\ (model = None /\ ~file.exists) =>
                         /\ outcome'.status = "FileNotFoundError"
                         /\ "value" \notin DOMAIN outcome'
                         /\ model' = None
                         /\ feature_columns' = feature_columns
                  /\ model # None =>
                         /\ model' = model
                         /\ feature_columns' = feature_columns
                         /\ outcome'.status = "returned"
                         /\ outcome'.value
                                = Answer(model, feature_columns, input)]_vars

\* predict answered with a resident model while the artifact at model_path
\* holds a different one.
C10_Witness ==
    /\ outcome.status = "returned"
    /\ outcome.op \in {"predict", "predict_ethanol"}
    /\ files[model_path].exists
    /\ model # files[model_path].model
    /\ outcome.value = Answer(model, feature_columns, outcome.input)
    /\ outcome.value
           # Answer(files[model_path].model, files[model_path].columns,
                    outcome.input)

\* What predict leaves in the column c of the row it aligns to the stored
\* list: the month indicator for month_1..month_12 and for the column of
\* int(harvest_month), else the scenario's value, else 0.
Expected(input, c) ==
    IF "harvest_month" \in DOMAIN input
       /\ c = MonthColumn(input["harvest_month"]) THEN 1
    ELSE IF c \in MonthIndicators THEN 0
    ELSE IF c \in DOMAIN input THEN input[c]
    ELSE 0

\* predict or predict_ethanol has returned a number.
PredictReturned ==
    /\ outcome.status = "returned"
    /\ outcome.op \in {"predict", "predict_ethanol"}

\* C11: the row predict hands to the model has exactly the stored columns
\* in the stored order; a stored column carries the scenario's value (or
\* its month indicator), 0 when the scenario does not supply it, and no
\* scenario key outside the stored list is in the row.
C11_RowAlignedToStoredColumns ==
    PredictReturned =>
        /\ outcome.columns = feature_columns
        /\ DOMAIN outcome.X_new = Range(feature_columns)
        /\ \A c \in Range(feature_columns) :
              outcome.X_new[c] = Expected(outcome.input, c)
        /\ \A k \in DOMAIN outcome.input :
              k \notin Range(feature_columns) => k \notin DOMAIN outcome.X_new

\* predict has aligned a scenario that supplies some stored columns, omits
\* others and carries a key that is not stored.
C11_Witness ==
    /\ PredictReturned
    /\ \E c \in Range(feature_columns) :
          c \in DOMAIN outcome.input /\ outcome.X_new[c] = outcome.input[c]
    /\ \E c \in Range(feature_columns) \ MonthIndicators :
          c \notin DOMAIN outcome.input /\ outcome.X_new[c] = 0
    /\ \E k \in DOMAIN outcome.input : k \notin Range(feature_columns)

\* C12: once an artifact exists at model_path, predict and predict_ethanol
\* return a number for every scenario: a part of the schema, the empty
\* mapping, no harvest_month, a harvest_month outside 1..12.
C12_PredictNeverRaises ==
    [][\A input \in ScenarioInputs :
          (PredictStep(input) /\ files[model_path].exists) =>
              /\ outcome'.status = "returned"
              /\ outcome'.value \in Int]_vars

\* predict returned a number for a scenario whose harvest_month is outside
\* 1..12 and for which the stored list has columns the scenario lacks.
C12_Witness ==
    /\ PredictReturned
    /\ files[model_path].exists
    /\ "harvest_month" \in DOMAIN outcome.input
    /\ outcome.input["harvest_month"] \notin Months
    /\ \E c \in Range(feature_columns) : c \notin DOMAIN outcome.input
    /\ outcome.value \in Int

\* The month indicators that are 1 in the row handed to the model.
HotIndicators == {c \in MonthIndicators : outcome.X_new[c] = 1}

\* The row predict builds has month_1..month_12; with harvest_month = m
\* supplied the column of m is 1 and the others of the twelve are 0, and
\* without harvest_month all twelve are 0.
BuiltRowIndicators ==
    LET input == outcome.input
        df == NewDf(input)
    IN  /\ MonthIndicators \subseteq DOMAIN df
        /\ IF "harvest_month" \in DOMAIN input
           THEN LET hot == MonthColumn(input["harvest_month"])
                IN  /\ hot \in DOMAIN df
                    /\ df[hot] = 1
                    /\ \A c \in MonthIndicators \ {hot} : df[c] = 0
           ELSE \A c \in MonthIndicators : df[c] = 0

\* C13 as stated: the built row is as above, and the row handed to a model
\* whose stored list holds month_1..month_12 has exactly one indicator at
\* 1 whenever harvest_month is supplied.
C13_OneIndicatorWheneverSupplied ==
    PredictReturned =>
        /\ BuiltRowIndicators
        /\ (/\ MonthIndicators \subseteq Range(feature_columns)
            /\ "harvest_month" \in DOMAIN outcome.input)
               => Cardinality(HotIndicators) = 1

\* C13, amended: the built row is as above, and the row handed to a model
\* whose stored list holds month_1..month_12 has exactly one indicator at
\* 1, that of harvest_month, when harvest_month is supplied with a value
\* in 1..12, and none when it is not supplied or lies outside 1..12.
C13_OneIndicatorForMonthInRange ==
    PredictReturned =>
        /\ BuiltRowIndicators
        /\ MonthIndicators \subseteq Range(feature_columns) =>
               HotIndicators =
                   IF /\ "harvest_month" \in DOMAIN outcome.input
                      /\ outcome.input["harvest_month"] \in Months
                   THEN {MonthColumn(outcome.input["harvest_month"])}
                   ELSE {}

\* predict handed a row with exactly one indicator at 1 to a model whose
\* stored list holds all twelve.
C13_Witness ==
    /\ PredictReturned
    /\ MonthIndicators \subseteq Range(feature_columns)
    /\ "harvest_month" \in DOMAIN outcome.input
    /\ HotIndicators = {MonthColumn(outcome.input["harvest_month"])}

----------------------------------------------------------------------------
(* Claims about the Trainer and the artifact *)

\* C14: the column list of every stored artifact holds all twelve
\* indicators month_1..month_12, whatever months the training data had.
C14_ArtifactHoldsAllMonths ==
    \A p \in Paths :
        files[p].exists => MonthIndicators \subseteq Range(files[p].columns)

\* C15: a predict call leaves the files alone and leaves a resident model
\* and feature_columns as they are; called again after a predict with the
\* same scenario, it returns the same value.
C15_PredictRepeats ==
    [][\A input \in ScenarioInputs :
          PredictStep(input) =>
              /\ files' = files
              /\ model # None =>
                     /\ model' = model
                     /\ feature_columns' = feature_columns
              /\ (PredictReturned /\ outcome.input = input) =>
                     /\ outcome'.status = "returned"
                     /\ outcome'.value = outcome.value]_vars

\* predict_ethanol answered from the resident model for a scenario that
\* supplies a stored column.
C15_Witness ==
    /\ PredictReturned
    /\ outcome.op = "predict_ethanol"
    /\ model # None
    /\ \E c \in Range(feature_columns) : c \in DOMAIN outcome.input
    /\ outcome.value = Answer(model, feature_columns, outcome.input)

\* A step in which load is called.
LoadStep ==
    /\ "op" \in DOMAIN outcome'
    /\ outcome'.op = "load"
    /\ Load

\* C16: load never changes a file; with an artifact at model_path it
\* leaves the instance with the stored pair, so a load that finds the
\* instance holding that pair already changes nothing.
C16_LoadIdempotent ==
    [][LoadStep =>
          LET file == files[model_path]
          IN  /\ files' = files
              /\ file.exists =>
                     /\ model' = file.model
                     /\ feature_columns' = file.columns
                     /\ (model = file.model
                            /\ feature_columns = file.columns)
                           => UNCHANGED <<model, feature_columns>>]_vars

\* load returned on an instance that holds the pair stored at model_path.
C16_Witness ==
    /\ outcome = [op |-> "load", status |-> "returned"]
    /\ files[model_path].exists
    /\ model = files[model_path].model
    /\ feature_columns = files[model_path].columns
    /\ feature_columns # << >>

\* The names of the three training methods.
TrainOps ==
    {"train", "train_linear_regression", "train_linear_regression_ethanol"}

\* A step in which a training method is called and returns.
TrainStep ==
    /\ "op" \in DOMAIN outcome'
    /\ outcome'.op \in TrainOps
    /\ outcome'.status = "returned"
    /\ \E n \in 1..MaxSamples :
          /\ rng' = Seeded(DrawsPerRow * n)
          /\ \/ outcome'.op = "train" /\ Train(n)
             \/ /\ outcome'.op = "train_linear_regression"
                /\ TrainLinearRegression(n)
             \/ /\ outcome'.op = "train_linear_regression_ethanol"
                /\ TrainLinearRegressionEthanol(n)

\* C17: after a training method returns, the file at model_path holds the
\* fitted model with the columns it was fitted on, whatever was there
\* before; the instance holds the same pair; a fresh instance that loads
\* the path obtains the same column list; no other file changes.
C17_TrainStoresFittedPair ==
    [][TrainStep =>
          /\ files'[model_path] =
                 [exists |-> TRUE, model |-> model',
                  columns |-> feature_columns']
          /\ model'.feature_names_in = feature_columns'
          /\ model'.kind = IF outcome'.op = "train"
                           THEN "RandomForestRegressor"
                           ELSE "LinearRegression"
          /\ LoadedColumns(<< >>, files'[model_path].columns)
                 = feature_columns'
          /\ \A p \in Paths \ {model_path} : files'[p] = files[p]]_vars

\* train returned at the path train.main writes to, and the file there
\* holds the forest the call fitted.
C17_Witness ==
    /\ outcome.status = "returned"
    /\ outcome.op = "train"
    /\ model_path = SugarLinearPath
    /\ files[model_path].model = model
    /\ model.kind = "RandomForestRegressor"
    /\ files[model_path].columns = feature_columns
    /\ Len(feature_columns) > 0

\* A file a load can read to its end.
Complete(file) == file.exists /\ file # Truncated

C19_MetricsHaveAllKeys ==
    (outcome.status = "returned" /\ outcome.op \in TrainOps) =>
        { "model_path", "model_type", "mse_test", "rmse_test", "mae_test",
          "r2_test", "r2_train", "n_train", "n_test", "n_features" }
            \subseteq outcome.value.keys

\* C20: a training run that fails raises its error to the caller of the
\* training entry point after logging it, and returns no metrics.
C20_FailureLoggedAndRaised ==
    \A r \in Runs :
        runs[r].result.status \notin {"none", "returned"} =>
            /\ runs[r].result.logged
            /\ "value" \notin DOMAIN runs[r].result

----------------------------------------------------------------------------
(* Further claims about the Decision Engine *)

\* The threshold rule applied to a figure in hundredths.
RuleOnReported(diff) ==
    IF diff > DecisionThreshold * 100 THEN "ethanol"
    ELSE IF diff < -DecisionThreshold * 100 THEN "sugar"
    ELSE "mixed"

\* C29: in the returned dict the reported profit_difference is the reported
\* ethanol profit minus the reported sugar profit, the recommendation is the
\* threshold rule applied to the reported profit_difference, and the
\* reported confidence is at most 0.25 exactly when the recommendation is
\* "mixed".
C29_ReportedFiguresConsistent ==
    Returned =>
        LET r == decision.result
        IN  /\ r.profit_difference =
                   r.ethanol_profit_per_hectare - r.sugar_profit_per_hectare
            /\ r.recommendation = RuleOnReported(r.profit_difference)
            /\ (r.confidence <= 25) <=> (r.recommendation = "mixed")

\* Other plantation costs, in 1/10000.
PlantationCostValues == {1500 * MoneyScale, 2000 * MoneyScale + 1}

\* The mappings that differ from c at most in plantation_cost_per_hectare,
\* avg_temp_plantation and rainfall_mm.
SharedTermVariants(c) ==
    { [k \in DOMAIN c |->
          IF k = "plantation_cost_per_hectare" THEN p
          ELSE IF k = "avg_temp_plantation" THEN t
          ELSE IF k = "rainfall_mm" THEN rain
          ELSE c[k]] :
        p \in PlantationCostValues \cup {c["plantation_cost_per_hectare"]},
        t \in TempValues, rain \in RainfallValues }

----------------------------------------------------------------------------
(* Further claims about the generator and its views *)

\* C23: generate_unified_sugarcane_data returns exactly num_samples rows for
\* a positive num_samples, and fails with a data-generation error, returning
\* no table, for a num_samples of zero or below.
C23_InvalidCountFails ==
    (table.status # "none" /\ table.view = "unified") =>
        IF table.num_samples >= 1
        THEN table.status = "returned" /\ Len(table.df) = table.num_samples
        ELSE table.status = "DataGenerationError"

\* The unified column each column of the sugar view is taken from.
SugarRenamed ==
    [ date |-> "date", sugar_price |-> "sugar_price_per_kg",
      ethanol_price |-> "ethanol_price_per_liter",
      bagasse_value |-> "bagasse_value_per_ton",
      molasses_value |-> "molasses_value_per_ton",
      avg_temp_plantation |-> "avg_temp_plantation",
      rainfall_harvest |-> "rainfall_mm", ccs_quality |-> "ccs_quality",
      harvest_month |-> "harvest_month",
      cane_yield_tons_per_hectare |-> "cane_yield_tons_per_hectare",
      sugar_content_brix |-> "sugar_content_brix",
      sugar_profit_per_hectare |-> "sugar_profit_per_hectare",
      target_net_profit_per_ton |-> "target_net_profit_per_ton" ]

\* The unified column each column of the ethanol view is taken from.
EthanolRenamed ==
    [ date |-> "date", ethanol_price |-> "ethanol_price_per_liter",
      crude_oil_price |-> "crude_oil_price",
      gasoline_price |-> "gasoline_price", ccs_quality |-> "ccs_quality",
      fermentation_efficiency |-> "fermentation_efficiency",
      harvest_month |-> "harvest_month",
      cane_yield_tons_per_hectare |-> "cane_yield_tons_per_hectare",
      sugar_content_brix |-> "sugar_content_brix",
      avg_temp_plantation |-> "avg_temp_plantation",
      rainfall_harvest |-> "rainfall_mm",
      ethanol_profit_per_hectare |-> "ethanol_profit_per_hectare",
      target_ethanol_profit_per_liter |-> "target_ethanol_profit_per_liter" ]

\* The raw-material columns the two views share.
SharedViewColumns ==
    { "cane_yield_tons_per_hectare", "sugar_content_brix", "ccs_quality",
      "avg_temp_plantation", "rainfall_harvest", "harvest_month" }

\* view holds the columns of unified under their new names; the column
\* named scaled, if any, holds 1000 times the unified value.
Narrows(view, unified, renamed, scaled) ==
    /\ Len(view) = Len(unified)
    /\ \A i \in DOMAIN view :
          /\ DOMAIN view[i] = DOMAIN renamed
          /\ \A c \in DOMAIN renamed :
                view[i][c] = IF c = scaled
                             THEN 1000 * unified[i][renamed[c]]
                             ELSE unified[i][renamed[c]]

\* A step in which a view generator is called.
ViewStep ==
    /\ table'.status = "returned"
    /\ table'.view \in {"sugar", "ethanol"}
    /\ \/ GenerateSugar(table'.num_samples)
       \/ GenerateEthanol(table'.num_samples)

\* C24: a view has as many rows as the unified table generated for the same
\* num_samples, every column of it holds the unified value under the new
\* name, sugar_price holding 1000 times sugar_price_per_kg, and the shared
\* raw-material columns of the sugar view and of the ethanol view are equal
\* row by row, whenever the two are generated.
C24_ViewsNarrowUnifiedTable ==
    [][ViewStep =>
          /\ Len(table'.df) = table'.num_samples
          /\ \A unified \in {UnifiedTable(clock, stream[table'.num_samples])} :
                IF table'.view = "sugar"
                THEN Narrows(table'.df, unified, SugarRenamed, "sugar_price")
                ELSE Narrows(table'.df, unified, EthanolRenamed, "none")
          /\ \A now \in 0..MaxClock :
                \A unified \in {UnifiedTable(now, stream[table'.num_samples])} :
                    \A sugar \in {SugarView(unified)},
                       ethanol \in {EthanolView(unified)} :
                        \A i \in DOMAIN table'.df, c \in SharedViewColumns :
                            /\ table'.df[i][c] = sugar[i][c]
                            /\ table'.df[i][c] = ethanol[i][c]]_vars

\* The sugar view of MaxSamples rows was generated after the clock moved,
\* with a price per kg that is not 0.
C24_Witness ==
    /\ table.status = "returned"
    /\ table.view = "sugar"
    /\ table.num_samples = MaxSamples
    /\ clock > 0
    /\ table.df[1].sugar_price > 0
    /\ table.df[1].sugar_price = 1000 * UnifiedTable(clock, stream[MaxSamples])[1].sugar_price_per_kg
    /\ table.df[1].harvest_month # table.df[MaxSamples].harvest_month

----------------------------------------------------------------------------
(* Claims about the Feature Preparer, checked under SpecPreparer *)

PreparerOps == {"_prepare_features", "_prepare_ethanol_features"}

\* The target column of each preparer.
TargetOf(op) ==
    IF op = "_prepare_features" THEN "target_net_profit_per_ton"
    ELSE "target_ethanol_profit_per_liter"

PreparerWasCalled == "op" \in DOMAIN outcome /\ outcome.op \in PreparerOps

\* C21: a preparer handed a table without the target column fails with an
\* error naming the target and returns no (matrix, vector) pair; handed a
\* table with the target it returns the pair, whether or not the table has
\* date or the other columns of its drop list.
C21_MissingTargetFails ==
    PreparerWasCalled =>
        IF TargetOf(outcome.op) \in Range(outcome.given)
        THEN /\ outcome.result.status = "returned"
             /\ Len(outcome.result.X) = Len(outcome.result.y)
             /\ \A i \in DOMAIN outcome.result.X :
                   DOMAIN outcome.result.X[i] = Range(outcome.result.columns)
        ELSE /\ outcome.result.status = "KeyError"
             /\ outcome.result.key = TargetOf(outcome.op)
             /\ DOMAIN outcome.result = {"status", "key"}

\* _prepare_features returned for a table that has the target and
\* weather_penalty and lacks date.
C21_Witness ==
    /\ PreparerWasCalled
    /\ outcome.op = "_prepare_features"
    /\ "date" \notin Range(outcome.given)
    /\ "weather_penalty" \in Range(outcome.given)
    /\ outcome.result.status = "returned"
    /\ Len(outcome.result.y) = MaxSamples
    /\ "weather_penalty" \notin Range(outcome.result.columns)

\* The derived profit column of each path, from which its target is
\* computed.
ProfitColumnOf(op) ==
    IF op = "_prepare_features" THEN "sugar_profit_per_hectare"
    ELSE "ethanol_profit_per_hectare"

\* C22: the feature matrix of either path holds neither date, nor the
\* target, nor harvest_month, nor the derived profit column of the path.
C22_NoOutputAmongFeatures ==
    (PreparerWasCalled /\ outcome.result.status = "returned") =>
        Range(outcome.result.columns)
            \cap { "date", "harvest_month", TargetOf(outcome.op),
                   ProfitColumnOf(outcome.op) } = {}

----------------------------------------------------------------------------
(* Further claims about the background trainings, checked under
   SpecTraining *)

\* Every training of the job started from the UI has run to its end and
\* its handler has returned.
JobFinished(job) ==
    /\ \E r \in Runs : runs[r].job = job
    /\ \A r \in Runs :
          runs[r].job = job => runs[r].pc = "done" /\ runs[r].announced

\* C26: once the background runs of a job have finished and the handlers
\* that started them have returned, the job's training status is
\* "completed" or "failed", never "started" or "running".
C26_StatusSettles ==
    \A job \in Jobs :
        JobFinished(job) => ui[job].status \in {"completed", "failed"}

----------------------------------------------------------------------------
(* Claims about the UI's handlers, checked under SpecUI *)

\* The keys predict_optimal_production reads.
EngineReads == Range(SubscriptOrder) \cup {"rainfall_mm"}

\* Mappings that agree with c on every key the engine reads: other values
\* for the keys it does not read, those keys left out, a key of no meaning
\* added.
ConditionVariants(c) ==
    { [c EXCEPT !["ccs_quality"] = 0],
      [c EXCEPT !["harvest_month"] = 13],
      Restrict(c, DOMAIN c \cap EngineReads),
      [k \in DOMAIN c \cup {"notes"} |-> IF k = "notes" THEN 1 ELSE c[k]] }

\* Scenarios that agree with input on harvest_month and on every key of
\* the stored columns: the keys outside the columns left out, and keys
\* outside the columns added.
ScenarioVariants(input, columns) ==
    LET kept == DOMAIN input \cap (Range(columns) \cup {"harvest_month"})
        added == {"notes", "date"} \ Range(columns)
    IN  { Restrict(input, kept),
          [k \in DOMAIN input \cup added |->
              IF k \in DOMAIN input THEN input[k] ELSE 7] }

\* What a prediction handler stores for the outcome of its call.
Stored(call) == IF call.status = "returned" THEN call.value ELSE 0

StoredColumns(path) ==
    IF files[path].exists /\ files[path] # Truncated
    THEN files[path].columns ELSE << >>

\* C25: a request of predict_optimal_strategy shows the same decision for
\* every mapping that agrees with its conditions on the keys the engine
\* reads, and a request of predict_profit or predict_ethanol_profit stores
\* the same value for every scenario that agrees with its scenario on
\* harvest_month and on the stored columns.
C25_UnknownKeysIgnored ==
    [][ /\ PredictOptimalStrategy(FALSE) =>
               \A v \in ConditionVariants(UiConditions(screen.inputs)) :
                   /\ predict_optimal_production(v).status = "returned"
                   /\ screen' = DecisionShown(
                                    screen,
                                    predict_optimal_production(v).result)
        /\ PredictProfit =>
               \A v \in ScenarioVariants(UiSugarScenario(screen.inputs),
                                         StoredColumns(DEFAULT_MODEL_PATH)) :
                   screen'.predicted_profit =
                       Stored(PredictWithNewInstance(DEFAULT_MODEL_PATH, v))
        /\ PredictEthanolProfit =>
               \A v \in ScenarioVariants(UiEthanolScenario(screen.inputs),
                                         StoredColumns(EthanolLinearPath)) :
                   screen'.predicted_ethanol_profit =
                       Stored(PredictWithNewInstance(EthanolLinearPath, v))
      ]_vars

\* A decision is shown and both predictions have answered.
C25_Witness ==
    /\ screen.show_decision_results
    /\ screen.production_recommendation = "ethanol"
    /\ screen.predicted_profit # 0
    /\ screen.predicted_ethanol_profit # 0

\* The numeric decision outputs of the State.
DecisionFigures ==
    { "sugar_profit_per_hectare", "ethanol_profit_per_hectare",
      "profit_difference", "recommendation_confidence",
      "sugar_production_tons", "ethanol_production_liters" }

PredictionFails(path, input) ==
    PredictWithNewInstance(path, input).status # "returned"

\* C27: a failing predict_profit or predict_ethanol_profit leaves 0 as the
\* predicted value; a failing predict_optimal_strategy leaves
\* show_decision_results false, "error" as the recommendation and every
\* numeric decision output as it was before the request.
C27_FailureHidesDecision ==
    [][ /\ (PredictProfit
            /\ PredictionFails(DEFAULT_MODEL_PATH,
                               UiSugarScenario(screen.inputs)))
               => screen'.predicted_profit = 0
        /\ (PredictEthanolProfit
            /\ PredictionFails(EthanolLinearPath,
                               UiEthanolScenario(screen.inputs)))
               => screen'.predicted_ethanol_profit = 0
        /\ PredictOptimalStrategy(TRUE) =>
               /\ ~screen'.show_decision_results
               /\ screen'.production_recommendation = "error"
               /\ \A f \in DecisionFigures : screen'[f] = screen[f]
      ]_vars

\* predict_optimal_strategy has failed after an earlier request of it had
\* succeeded, and predict_ethanol_profit finds a file that a second
\* training has opened after the first had completed.
C27_Witness ==
    /\ screen.production_recommendation = "error"
    /\ ~screen.show_decision_results
    /\ screen.sugar_profit_per_hectare # 0
    /\ screen.predicted_ethanol_profit = 0
    /\ screen.printed = "Ethanol prediction error"
    /\ files[EthanolLinearPath] = Truncated
    /\ ui["ethanol"].status = "completed"

\* C27 as stated: after a failure of predict_optimal_strategy the numeric
\* decision outputs are zero.
C27_FailureZeroesDecision ==
    [][ PredictOptimalStrategy(TRUE) =>
            /\ ~screen'.show_decision_results
            /\ \A f \in DecisionFigures : screen'[f] = 0
      ]_vars

\* A training of the job has completed, its status says so, and no other
\* training of the job was started.
TrainingCompleted(job, r) ==
    /\ runs[r].job = job
    /\ runs[r].pc = "done"
    /\ runs[r].result.status = "returned"
    /\ ui[job].status = "completed"
    /\ \A q \in Runs \ {r} : runs[q].job # job

\* C28: once a sugar training of the UI has completed, and nothing but the
\* UI's trainings has written a file, predict_profit answers with the
\* model that training wrote; once an ethanol training has
\* completed, predict_ethanol_profit answers with the model that training
\* wrote.
C28_PredictsWithTrainedModel ==
    [][ \A r \in Runs :
          /\ (/\ TrainingCompleted("sugar", r)
              /\ ~files[DEFAULT_MODEL_PATH].exists
              /\ PredictProfit) =>
                 /\ ~PredictionFails(DEFAULT_MODEL_PATH,
                                     UiSugarScenario(screen.inputs))
                 /\ screen'.predicted_profit =
                        Answer(runs[r].trained.model, runs[r].trained.columns,
                               UiSugarScenario(screen.inputs))
          /\ (TrainingCompleted("ethanol", r) /\ PredictEthanolProfit) =>
                 /\ ~PredictionFails(EthanolLinearPath,
                                     UiEthanolScenario(screen.inputs))
                 /\ screen'.predicted_ethanol_profit =
                        Answer(runs[r].trained.model, runs[r].trained.columns,
                               UiEthanolScenario(screen.inputs))
      ]_vars

====
